---- MODULE Spec2Model ----
(***************************************************************************)
(* Authorization routines of the CUPS scheduler (scheduler/auth.c): the    *)
(* location table, cupsdFindBest, cupsdCheckAuth and cupsdIsAuthorized.    *)
(*                                                                         *)
(* C strings are tuples of one-character strings (<<>> is ""), so that     *)
(* strcmp, strcasecmp, strncmp and strlen are computed character by        *)
(* character. A NULL pointer is the value NULL. Bit masks over the request *)
(* verbs are sets of verb names; "a & b" is set intersection.              *)
(* The build modelled is the one with HAVE_SSL, HAVE_LIBPAM and AF_INET6   *)
(* defined, on a little-endian host.                                       *)
(***************************************************************************)
EXTENDS Integers, Sequences, FiniteSets, TLC

VARIABLES Locations, NumLocations, DefaultAuthType, phase, con, owner, sysdb,
          status, calls

vars ==
  <<Locations, NumLocations, DefaultAuthType, phase, con, owner, sysdb, status, calls>>

(***************************************************************************)
(* libc strings                                                            *)
(***************************************************************************)
NULL == <<"NULL">>

UPPER == <<"A","B","C","D","E","F","G","H","I","J","K","L","M",
           "N","O","P","Q","R","S","T","U","V","W","X","Y","Z">>

LOWER == <<"a","b","c","d","e","f","g","h","i","j","k","l","m",
           "n","o","p","q","r","s","t","u","v","w","x","y","z">>

tolower(c) ==
  IF \E i \in DOMAIN UPPER : UPPER[i] = c
  THEN LOWER[CHOOSE i \in DOMAIN UPPER : UPPER[i] = c]
  ELSE c

strlen(s) == Len(s)

\* the first n characters of s (all of s when it is shorter)
Left(s, n) == SubSeq(s, 1, IF n < Len(s) THEN n ELSE Len(s))

\* s + n: the string that starts n characters into s
Skip(s, n) == SubSeq(s, n + 1, Len(s))

Fold(s) == [i \in DOMAIN s |-> tolower(s[i])]

\* 0 when equal, 1 otherwise (the sign of a difference is never used)
strcmp(a, b) == IF a = b THEN 0 ELSE 1

strcasecmp(a, b) == IF Fold(a) = Fold(b) THEN 0 ELSE 1

strncmp(a, b, n) == IF Left(a, n) = Left(b, n) THEN 0 ELSE 1

strncasecmp(a, b, n) == IF Fold(Left(a, n)) = Fold(Left(b, n)) THEN 0 ELSE 1

(***************************************************************************)
(* 32-bit words: four bytes, the most significant first                    *)
(***************************************************************************)
Word0 == <<0, 0, 0, 0>>

RECURSIVE ByteAnd(_, _)
ByteAnd(a, b) ==
  IF a = 0 \/ b = 0 THEN 0
  ELSE (a % 2) * (b % 2) + 2 * ByteAnd(a \div 2, b \div 2)

\* a & b
BitAnd(a, b) ==
  <<ByteAnd(a[1], b[1]), ByteAnd(a[2], b[2]), ByteAnd(a[3], b[3]), ByteAnd(a[4], b[4])>>

\* byte swap of a 32-bit word (htonl and ntohl on a little-endian host)
htonl(x) == <<x[4], x[3], x[2], x[1]>>

ntohl(x) == htonl(x)

(***************************************************************************)
(* Enumerations of auth.h, in the order auth.c's tables list them          *)
(***************************************************************************)
AUTH_NONE == "AUTH_NONE"
AUTH_BASIC == "AUTH_BASIC"
AUTH_DIGEST == "AUTH_DIGEST"
AUTH_BASICDIGEST == "AUTH_BASICDIGEST"
AuthTypes == {AUTH_NONE, AUTH_BASIC, AUTH_DIGEST, AUTH_BASICDIGEST}

AUTH_ANON == "AUTH_ANON"
AUTH_USER == "AUTH_USER"
AUTH_GROUP == "AUTH_GROUP"
AuthLevels == {AUTH_ANON, AUTH_USER, AUTH_GROUP}

AUTH_ALLOW == "AUTH_ALLOW"
AUTH_DENY == "AUTH_DENY"

AUTH_SATISFY_ALL == "AUTH_SATISFY_ALL"
AUTH_SATISFY_ANY == "AUTH_SATISFY_ANY"

AUTH_NAME == "AUTH_NAME"
AUTH_IP == "AUTH_IP"
AUTH_INTERFACE == "AUTH_INTERFACE"

AUTH_LIMIT_DELETE == {"DELETE"}
AUTH_LIMIT_GET == {"GET"}
AUTH_LIMIT_HEAD == {"HEAD"}
AUTH_LIMIT_OPTIONS == {"OPTIONS"}
AUTH_LIMIT_POST == {"POST"}
AUTH_LIMIT_PUT == {"PUT"}
AUTH_LIMIT_TRACE == {"TRACE"}
AUTH_LIMIT_ALL == {"DELETE", "GET", "HEAD", "OPTIONS", "POST", "PUT", "TRACE"}
AUTH_LIMIT_IPP == {"IPP"}

HTTP_ENCRYPT_IF_REQUESTED == 0
HTTP_ENCRYPT_REQUIRED == 2

HTTP_OK == "HTTP_OK"
HTTP_UNAUTHORIZED == "HTTP_UNAUTHORIZED"
HTTP_FORBIDDEN == "HTTP_FORBIDDEN"
HTTP_UPGRADE_REQUIRED == "HTTP_UPGRADE_REQUIRED"

\* http_state_t values used as requests (indexes of limits[] and states[])
HTTP_WAITING == 0
HTTP_GET == 2
HTTP_POST == 5
HTTP_DELETE == 10

\* limits[state] of cupsdFindBest
limits ==
  <<AUTH_LIMIT_ALL, AUTH_LIMIT_OPTIONS, AUTH_LIMIT_GET, AUTH_LIMIT_GET,
    AUTH_LIMIT_HEAD, AUTH_LIMIT_POST, AUTH_LIMIT_POST, AUTH_LIMIT_POST,
    AUTH_LIMIT_PUT, AUTH_LIMIT_PUT, AUTH_LIMIT_DELETE, AUTH_LIMIT_TRACE,
    AUTH_LIMIT_ALL, AUTH_LIMIT_ALL>>

\* states[state] of cupsdIsAuthorized
states ==
  <<"WAITING", "OPTIONS", "GET", "GET", "HEAD", "POST", "POST", "POST",
    "PUT", "PUT", "DELETE", "TRACE", "CLOSE", "STATUS">>

(***************************************************************************)
(* String literals of auth.c                                               *)
(***************************************************************************)
S_localhost == <<"l","o","c","a","l","h","o","s","t">>
S_printers == <<"/","p","r","i","n","t","e","r","s","/">>
S_classes == <<"/","c","l","a","s","s","e","s","/">>
S_ppd == <<".","p","p","d">>
S_root == <<"r","o","o","t">>
S_Local == <<"L","o","c","a","l">>
S_star == <<"*">>
S_OWNER == <<"@","O","W","N","E","R">>
S_SYSTEM == <<"@","S","Y","S","T","E","M">>
S_CUPS == <<"C","U","P","S">>

(***************************************************************************)
(* cupsdCheckAuth: does one of the first num_masks masks match the peer?   *)
(* A mask is [type, name, length, address, netmask]; ip is the peer's      *)
(* address as four host-order words; netif is the interface list           *)
(* (NetIFList), whose addresses and masks are in network byte order.       *)
(***************************************************************************)
IPv4(a, b, c, d) == <<a, b, c, d>>

IfaceMatch(iface, ip) ==
  IF iface.family = "AF_INET"
  THEN BitAnd(htonl(ip[4]), iface.mask[4]) = BitAnd(iface.address[4], iface.mask[4])
  ELSE \A i \in 1..4 :
         BitAnd(htonl(ip[i]), iface.mask[i]) = BitAnd(iface.address[i], iface.mask[i])

\* the null pointer where a structure (not a string) is pointed to
NoEntry == [null |-> TRUE]

NetIFFind(netif, name) ==
  IF \E i \in DOMAIN netif : netif[i].name = name
  THEN netif[CHOOSE i \in DOMAIN netif :
               netif[i].name = name /\ \A j \in 1..(i - 1) : netif[j].name # name]
  ELSE NoEntry

MaskMatches(m, ip, name, name_len, netif) ==
  CASE m.type = AUTH_INTERFACE ->
         IF strcmp(m.name, S_star) = 0
         THEN \E i \in DOMAIN netif : netif[i].is_local /\ IfaceMatch(netif[i], ip)
         ELSE NetIFFind(netif, m.name) # NoEntry /\ IfaceMatch(NetIFFind(netif, m.name), ip)
    [] m.type = AUTH_NAME ->
         \/ strcasecmp(name, m.name) = 0
         \/ /\ name_len >= m.length
            /\ Len(m.name) > 0
            /\ m.name[1] = "."
            /\ strcasecmp(Skip(name, name_len - m.length), m.name) = 0
    [] m.type = AUTH_IP ->
         \A i \in 1..4 : BitAnd(ip[i], m.netmask[i]) = m.address[i]
    [] OTHER -> FALSE

cupsdCheckAuth(ip, name, name_len, num_masks, masks, netif) ==
  IF \E i \in 1..num_masks : MaskMatches(masks[i], ip, name, name_len, netif)
  THEN 1 ELSE 0

(***************************************************************************)
(* cupsdFindBest: the index in Locations of the best match, 0 for NULL.    *)
(***************************************************************************)
\* mutant: the queue prefixes are recognised in any case
IsQueueURI_AnyCase(uri) ==
  strncasecmp(uri, S_printers, 10) = 0 \/ strncasecmp(uri, S_classes, 9) = 0

IsQueueURI(uri) ==
  strncmp(uri, S_printers, 10) = 0 \/ strncmp(uri, S_classes, 9) = 0

\* mutant: a trailing .ppd is dropped from every path
FindBestURI_AnyPrefix(path) ==
  IF strlen(path) >= 4 /\ strcmp(Skip(path, strlen(path) - 4), S_ppd) = 0
  THEN Left(path, strlen(path) - 4)
  ELSE path

\* the local copy of the path, without a trailing .ppd under /printers/ and /classes/
FindBestURI(path) ==
  IF IsQueueURI(path) /\ strcmp(Skip(path, strlen(path) - 4), S_ppd) = 0
  THEN Left(path, strlen(path) - 4)
  ELSE path

\* mutant: a Location as long as the best so far replaces it
LocationMatches_LaterTieWins(loc, uri, limit, bestlen) ==
  /\ loc.length >= bestlen
  /\ IF IsQueueURI(uri)
     THEN strncasecmp(uri, loc.location, loc.length) = 0
     ELSE strncmp(uri, loc.location, loc.length) = 0
  /\ Len(loc.location) > 0 /\ loc.location[1] = "/"
  /\ (limit \cap loc.limit) # {}

\* mutant: the comparison with bestlen is lost (the last match wins)
LocationMatches_AnyLength(loc, uri, limit, bestlen) ==
  /\ IF IsQueueURI(uri)
     THEN strncasecmp(uri, loc.location, loc.length) = 0
     ELSE strncmp(uri, loc.location, loc.length) = 0
  /\ Len(loc.location) > 0 /\ loc.location[1] = "/"
  /\ (limit \cap loc.limit) # {}

LocationMatches(loc, uri, limit, bestlen) ==
  IF IsQueueURI(uri)
  THEN /\ loc.length > bestlen
       /\ strncasecmp(uri, loc.location, loc.length) = 0
       /\ Len(loc.location) > 0 /\ loc.location[1] = "/"
       /\ (limit \cap loc.limit) # {}
  ELSE /\ loc.length > bestlen
       /\ strncmp(uri, loc.location, loc.length) = 0
       /\ Len(loc.location) > 0 /\ loc.location[1] = "/"
       /\ (limit \cap loc.limit) # {}

RECURSIVE FindBestLoop(_, _, _, _, _, _, _)
FindBestLoop(locs, num, i, uri, limit, best, bestlen) ==
  IF i > num THEN best
  ELSE IF LocationMatches(locs[i], uri, limit, bestlen)
       THEN FindBestLoop(locs, num, i + 1, uri, limit, i, locs[i].length)
       ELSE FindBestLoop(locs, num, i + 1, uri, limit, best, bestlen)

FindBest(locs, num, path, state) ==
  FindBestLoop(locs, num, 1, FindBestURI(path), limits[state + 1], 0, 0)

cupsdFindBest(path, state) == FindBest(Locations, NumLocations, path, state)

(***************************************************************************)
(* cupsdGetMD5Passwd: file is NoEntry when passwd.md5 cannot be opened,    *)
(* else [lines]: each line [ok, user, group, passwd] (ok: sscanf read 3).  *)
(* group may be NULL. Returns the stored digest or NULL.                   *)
(***************************************************************************)
MD5LineMatches(line, username, group) ==
  /\ line.ok
  /\ strcmp(username, line.user) = 0
  /\ (group = NULL \/ strcmp(group, line.group) = 0)

cupsdGetMD5Passwd(username, group, file) ==
  IF file = NoEntry THEN NULL
  ELSE IF \E i \in DOMAIN file.lines : MD5LineMatches(file.lines[i], username, group)
       THEN file.lines[CHOOSE i \in DOMAIN file.lines :
                   /\ MD5LineMatches(file.lines[i], username, group)
                   /\ \A j \in 1..(i - 1) :
                        ~MD5LineMatches(file.lines[j], username, group)].passwd
       ELSE NULL

\* lines 957-990: the calls cupsdGetMD5Passwd makes on passwd.md5 before it
\* returns; an open that fails leaves no handle
cupsdGetMD5PasswdCalls(file) ==
  IF file = NoEntry
  THEN <<"cupsdGetMD5Passwd", "cupsFileOpen(NULL)">>
  ELSE <<"cupsdGetMD5Passwd", "cupsFileOpen", "cupsFileGets", "cupsFileClose">>

(***************************************************************************)
(* cupsdCheckGroup: user is the passwd entry (or NULL); os holds the group *)
(* database (records [gr_name, gr_gid, gr_mem]) and the passwd.md5 file.   *)
(***************************************************************************)
getgrnam(os, groupname) ==
  IF \E g \in os.group : g.gr_name = groupname
  THEN CHOOSE g \in os.group : g.gr_name = groupname
  ELSE NoEntry

getpwnam(os, username) ==
  IF \E p \in os.passwd : p.pw_name = username
  THEN CHOOSE p \in os.passwd : p.pw_name = username
  ELSE NoEntry

\* mutant: passwd.md5 is only consulted for a group the OS knows
cupsdCheckGroup_KnownGroupsOnly(username, user, groupname, os) ==
  IF username = NULL \/ groupname = NULL THEN 0
  ELSE LET group == getgrnam(os, groupname) IN
       IF group # NoEntry /\ \E i \in DOMAIN group.gr_mem :
                             strcasecmp(username, group.gr_mem[i]) = 0
       THEN 1
       ELSE IF user # NoEntry /\ group # NoEntry /\ group.gr_gid = user.pw_gid
       THEN 1
       ELSE IF group # NoEntry /\ cupsdGetMD5Passwd(username, groupname, os.md5file) # NULL
       THEN 1
       ELSE 0

cupsdCheckGroup(username, user, groupname, os) ==
  IF username = NULL \/ groupname = NULL THEN 0
  ELSE LET group == getgrnam(os, groupname) IN
       IF group # NoEntry /\ \E i \in DOMAIN group.gr_mem :
                             strcasecmp(username, group.gr_mem[i]) = 0
       THEN 1
       ELSE IF user # NoEntry /\ group # NoEntry /\ group.gr_gid = user.pw_gid
       THEN 1
       ELSE IF cupsdGetMD5Passwd(username, groupname, os.md5file) # NULL
       THEN 1
       ELSE 0

\* lines 461-496: the calls cupsdCheckGroup makes before it returns
cupsdCheckGroupCalls(username, user, groupname, os) ==
  IF username = NULL \/ groupname = NULL THEN <<"cupsdCheckGroup">>
  ELSE LET group == getgrnam(os, groupname) IN
       IF group # NoEntry /\ \E i \in DOMAIN group.gr_mem :
                             strcasecmp(username, group.gr_mem[i]) = 0
       THEN <<"cupsdCheckGroup", "getgrnam", "endgrent">>
       ELSE IF user # NoEntry /\ group # NoEntry /\ group.gr_gid = user.pw_gid
       THEN <<"cupsdCheckGroup", "getgrnam", "endgrent">>
       ELSE <<"cupsdCheckGroup", "getgrnam", "endgrent">>
              \o cupsdGetMD5PasswdCalls(os.md5file)

(***************************************************************************)
(* Server configuration read by cupsdIsAuthorized                          *)
(***************************************************************************)
ServerName == <<"s","r","v">>

SystemGroups == << <<"s","y","s">> >>

NumSystemGroups == Len(SystemGroups)

(***************************************************************************)
(* Collaborators outside auth.c: the MD5 helpers and PAM. A digest is a    *)
(* string that determines its inputs; PAM accepts a user whose password is *)
(* in os.shadow and whose account is not in os.expired.                    *)
(***************************************************************************)
httpMD5(username, realm, passwd) ==
  <<"md5", ToString(<<username, realm, passwd>>)>>

httpMD5Final(nonce, method, resource, md5) ==
  <<"md5final", ToString(<<nonce, method, resource, md5>>)>>

PamOutcome(os, username, password) ==
  IF ~os.pam_up THEN "pam_start"
  ELSE IF <<username, password>> \notin os.shadow THEN "pam_authenticate"
  ELSE IF username \in os.expired THEN "pam_acct_mgmt"
  ELSE "PAM_SUCCESS"

(***************************************************************************)
(* cupsdIsAuthorized, in the order of its code. Every part yields the      *)
(* calls it made (library calls and the log lines that mark a stage), so   *)
(* that what ran before a verdict is part of the result.                   *)
(***************************************************************************)
\* lines 1090-1116: the peer address as four host-order words
PeerAddress(hostaddr) ==
  IF hostaddr.family = "AF_INET6"
  THEN <<ntohl(hostaddr.addr[1]), ntohl(hostaddr.addr[2]),
         ntohl(hostaddr.addr[3]), ntohl(hostaddr.addr[4])>>
  ELSE IF hostaddr.family = "AF_INET"
  THEN <<Word0, Word0, Word0, ntohl(hostaddr.addr[4])>>
  ELSE <<Word0, Word0, Word0, Word0>>

\* mutant: under Order Deny,Allow the lists are consulted in the other order,
\* so a deny match overrides an allow match
HostVerdict_DenyLast(c, best, netif) ==
  LET address == PeerAddress(c.hostaddr)
      hostlen == strlen(c.hostname)
      deny == cupsdCheckAuth(address, c.hostname, hostlen, best.num_deny, best.deny, netif)
      allow == cupsdCheckAuth(address, c.hostname, hostlen, best.num_allow, best.allow, netif)
  IN
  IF strcasecmp(c.hostname, S_localhost) = 0
  THEN [auth |-> AUTH_ALLOW, calls |-> <<>>]
  ELSE CASE best.order_type = AUTH_ALLOW ->
              LET a2 == IF deny = 1 THEN AUTH_DENY ELSE AUTH_ALLOW
              IN [auth |-> a2, calls |-> <<"cupsdCheckAuth(allow)", "cupsdCheckAuth(deny)">>]
         [] best.order_type = AUTH_DENY ->
              LET a1 == IF allow = 1 THEN AUTH_ALLOW ELSE AUTH_DENY
                  a2 == IF deny = 1 THEN AUTH_DENY ELSE a1
              IN [auth |-> a2, calls |-> <<"cupsdCheckAuth(allow)", "cupsdCheckAuth(deny)">>]
         [] OTHER -> [auth |-> AUTH_DENY, calls |-> <<>>]

\* mutant: the localhost test compares case-sensitively
HostVerdict_ExactLocalhost(c, best, netif) ==
  LET address == PeerAddress(c.hostaddr)
      hostlen == strlen(c.hostname)
      deny == cupsdCheckAuth(address, c.hostname, hostlen, best.num_deny, best.deny, netif)
      allow == cupsdCheckAuth(address, c.hostname, hostlen, best.num_allow, best.allow, netif)
  IN
  IF strcmp(c.hostname, S_localhost) = 0
  THEN [auth |-> AUTH_ALLOW, calls |-> <<>>]
  ELSE CASE best.order_type = AUTH_ALLOW ->
              LET a1 == IF deny = 1 THEN AUTH_DENY ELSE AUTH_ALLOW
                  a2 == IF allow = 1 THEN AUTH_ALLOW ELSE a1
              IN [auth |-> a2, calls |-> <<"cupsdCheckAuth(deny)", "cupsdCheckAuth(allow)">>]
         [] best.order_type = AUTH_DENY ->
              LET a1 == IF allow = 1 THEN AUTH_ALLOW ELSE AUTH_DENY
                  a2 == IF deny = 1 THEN AUTH_DENY ELSE a1
              IN [auth |-> a2, calls |-> <<"cupsdCheckAuth(allow)", "cupsdCheckAuth(deny)">>]
         [] OTHER -> [auth |-> AUTH_DENY, calls |-> <<>>]

\* lines 1118-1164: auth, the host verdict
HostVerdict(c, best, netif) ==
  LET address == PeerAddress(c.hostaddr)
      hostlen == strlen(c.hostname)
      deny == cupsdCheckAuth(address, c.hostname, hostlen, best.num_deny, best.deny, netif)
      allow == cupsdCheckAuth(address, c.hostname, hostlen, best.num_allow, best.allow, netif)
  IN
  IF strcasecmp(c.hostname, S_localhost) = 0
  THEN [auth |-> AUTH_ALLOW, calls |-> <<>>]
  ELSE CASE best.order_type = AUTH_ALLOW ->
              LET a1 == IF deny = 1 THEN AUTH_DENY ELSE AUTH_ALLOW
                  a2 == IF allow = 1 THEN AUTH_ALLOW ELSE a1
              IN [auth |-> a2, calls |-> <<"cupsdCheckAuth(deny)", "cupsdCheckAuth(allow)">>]
         [] best.order_type = AUTH_DENY ->
              LET a1 == IF allow = 1 THEN AUTH_ALLOW ELSE AUTH_DENY
                  a2 == IF deny = 1 THEN AUTH_DENY ELSE a1
              IN [auth |-> a2, calls |-> <<"cupsdCheckAuth(allow)", "cupsdCheckAuth(deny)">>]
         [] OTHER -> [auth |-> AUTH_DENY, calls |-> <<>>]

\* lines 1416-1429 and 1463-1476: the stored digest of the first permitted
\* group that has an entry for the user; [md5, calls], md5 = <<>> when none
RECURSIVE MD5SystemLoop(_, _, _)
MD5SystemLoop(username, j, file) ==
  IF j > NumSystemGroups THEN [md5 |-> NULL, calls |-> <<>>]
  ELSE LET got == cupsdGetMD5Passwd(username, SystemGroups[j], file)
           rest == MD5SystemLoop(username, j + 1, file)
       IN IF got # NULL
          THEN [md5 |-> got, calls |-> cupsdGetMD5PasswdCalls(file)]
          ELSE [md5 |-> rest.md5, calls |-> cupsdGetMD5PasswdCalls(file) \o rest.calls]

RECURSIVE MD5NamesLoop(_, _, _, _)
MD5NamesLoop(username, best, i, file) ==
  IF i > best.num_names THEN [md5 |-> <<>>, calls |-> <<>>]
  ELSE LET rest == MD5NamesLoop(username, best, i + 1, file) IN
       IF strcasecmp(best.names[i], S_SYSTEM) = 0
       THEN LET sys == MD5SystemLoop(username, 1, file) IN
            IF sys.md5 # NULL THEN sys
            ELSE [md5 |-> rest.md5, calls |-> sys.calls \o rest.calls]
       ELSE LET got == cupsdGetMD5Passwd(username, best.names[i], file) IN
            IF got # NULL
            THEN [md5 |-> got, calls |-> cupsdGetMD5PasswdCalls(file)]
            ELSE [md5 |-> rest.md5, calls |-> cupsdGetMD5PasswdCalls(file) \o rest.calls]

\* lines 1412-1435 and 1459-1482
StoredMD5(c, best, os) ==
  IF best.num_names # 0 /\ best.level = AUTH_GROUP
  THEN MD5NamesLoop(c.username, best, 1, os.md5file)
  ELSE LET got == cupsdGetMD5Passwd(c.username, NULL, os.md5file) IN
       [md5 |-> IF got = NULL THEN <<>> ELSE got, calls |-> cupsdGetMD5PasswdCalls(os.md5file)]

\* mutant: a failed pam_authenticate returns without pam_end
CheckBasic_HandleLeftOpen(c, os) ==
  LET out == PamOutcome(os, c.username, c.password)
      pre == <<"getpwnam", "endpwent", "pam_start">>
  IN CASE out = "pam_start" ->
            [ok |-> FALSE, calls |-> pre \o <<"pam_end">>]
       [] out = "pam_authenticate" ->
            [ok |-> FALSE, calls |-> pre \o <<"pam_authenticate">>]
       [] out = "pam_acct_mgmt" ->
            [ok |-> FALSE,
             calls |-> pre \o <<"pam_authenticate", "pam_acct_mgmt", "pam_end">>]
       [] OTHER ->
            [ok |-> TRUE,
             calls |-> pre \o <<"pam_authenticate", "pam_acct_mgmt", "pam_end",
                                "password ok">>]

\* lines 1249-1304 (HAVE_LIBPAM): [ok, calls]
CheckBasic(c, os) ==
  LET out == PamOutcome(os, c.username, c.password)
      pre == <<"getpwnam", "endpwent", "pam_start">>
  IN CASE out = "pam_start" ->
            [ok |-> FALSE, calls |-> pre \o <<"pam_end">>]
       [] out = "pam_authenticate" ->
            [ok |-> FALSE, calls |-> pre \o <<"pam_authenticate", "pam_end">>]
       [] out = "pam_acct_mgmt" ->
            [ok |-> FALSE,
             calls |-> pre \o <<"pam_authenticate", "pam_acct_mgmt", "pam_end">>]
       [] OTHER ->
            [ok |-> TRUE,
             calls |-> pre \o <<"pam_authenticate", "pam_acct_mgmt", "pam_end",
                                "password ok">>]

\* mutant: the nonce is read but not compared with the peer's hostname
CheckDigest_NonceUnbound(c, best, os) ==
  IF c.nonce = NULL
  THEN [ok |-> FALSE, calls |-> <<"httpGetSubField(nonce)">>]
  ELSE LET stored == StoredMD5(c, best, os)
           pre == <<"httpGetSubField(nonce)">> \o stored.calls
           md5 == httpMD5Final(c.nonce, states[c.state + 1], c.uri, stored.md5)
       IN IF stored.md5 = <<>>
          THEN [ok |-> FALSE, calls |-> pre]
          ELSE IF strcmp(md5, c.password) # 0
          THEN [ok |-> FALSE, calls |-> pre \o <<"httpMD5Final">>]
          ELSE [ok |-> TRUE, calls |-> pre \o <<"httpMD5Final", "password ok">>]

\* lines 1389-1452: [ok, calls]
CheckDigest(c, best, os) ==
  IF c.nonce = NULL
  THEN [ok |-> FALSE, calls |-> <<"httpGetSubField(nonce)">>]
  ELSE IF strcmp(c.hostname, c.nonce) # 0
  THEN [ok |-> FALSE, calls |-> <<"httpGetSubField(nonce)">>]
  ELSE LET stored == StoredMD5(c, best, os)
           pre == <<"httpGetSubField(nonce)">> \o stored.calls
           md5 == httpMD5Final(c.nonce, states[c.state + 1], c.uri, stored.md5)
       IN IF stored.md5 = <<>>
          THEN [ok |-> FALSE, calls |-> pre]
          ELSE IF strcmp(md5, c.password) # 0
          THEN [ok |-> FALSE, calls |-> pre \o <<"httpMD5Final">>]
          ELSE [ok |-> TRUE, calls |-> pre \o <<"httpMD5Final", "password ok">>]

\* lines 1454-1499: [ok, calls]
CheckBasicDigest(c, best, os) ==
  LET stored == StoredMD5(c, best, os)
      basicmd5 == httpMD5(c.username, S_CUPS, c.password)
  IN IF stored.md5 = <<>>
     THEN [ok |-> FALSE, calls |-> stored.calls]
     ELSE IF strcmp(stored.md5, basicmd5) # 0
     THEN [ok |-> FALSE, calls |-> stored.calls \o <<"httpMD5">>]
     ELSE [ok |-> TRUE, calls |-> stored.calls \o <<"httpMD5", "password ok">>]

\* line 1247: the scheme the switch selects
SelectedType(best, default) ==
  IF best.type # AUTH_NONE THEN best.type ELSE default

\* lines 1233-1510: [ok, haspw, calls]; haspw: getpwnam was called (pw is its result)
CheckPassword(c, best, os, default) ==
  IF strcasecmp(c.hostname, S_localhost) # 0 \/ strncmp(c.authorization, S_Local, 5) # 0
  THEN IF c.password = <<>>
       THEN [ok |-> FALSE, haspw |-> FALSE, calls |-> <<>>]
       ELSE CASE SelectedType(best, default) = AUTH_BASIC ->
                   LET r == CheckBasic(c, os) IN
                   [ok |-> r.ok, haspw |-> TRUE, calls |-> r.calls]
              [] SelectedType(best, default) = AUTH_DIGEST ->
                   LET r == CheckDigest(c, best, os) IN
                   [ok |-> r.ok, haspw |-> FALSE, calls |-> r.calls]
              [] SelectedType(best, default) = AUTH_BASICDIGEST ->
                   LET r == CheckBasicDigest(c, best, os) IN
                   [ok |-> r.ok, haspw |-> FALSE, calls |-> r.calls]
              [] OTHER ->
                   [ok |-> TRUE, haspw |-> FALSE, calls |-> <<>>]
  ELSE [ok |-> TRUE, haspw |-> TRUE, calls |-> <<"getpwnam", "endpwent">>]

\* lines 1544-1546 and 1579-1581: [ok, calls]
RECURSIVE SystemGroupLoop(_, _, _, _)
SystemGroupLoop(username, pw, j, os) ==
  IF j > NumSystemGroups THEN [ok |-> FALSE, calls |-> <<>>]
  ELSE IF cupsdCheckGroup(username, pw, SystemGroups[j], os) = 1
  THEN [ok |-> TRUE, calls |-> cupsdCheckGroupCalls(username, pw, SystemGroups[j], os)]
  ELSE LET rest == SystemGroupLoop(username, pw, j + 1, os) IN
       [ok |-> rest.ok, calls |-> cupsdCheckGroupCalls(username, pw, SystemGroups[j], os) \o rest.calls]

\* lines 1537-1557: the user list of an AUTH_USER location; [ok, calls]
RECURSIVE UserLoop(_, _, _, _, _, _)
UserLoop(c, best, own, pw, i, os) ==
  IF i > best.num_names THEN [ok |-> FALSE, calls |-> <<>>]
  ELSE LET name == best.names[i]
           rest == UserLoop(c, best, own, pw, i + 1, os)
       IN
       IF strcasecmp(name, S_OWNER) = 0 /\ own # NULL /\ strcasecmp(c.username, own) = 0
       THEN [ok |-> TRUE, calls |-> <<>>]
       ELSE IF strcasecmp(name, S_SYSTEM) = 0
       THEN LET sys == SystemGroupLoop(c.username, pw, 1, os) IN
            IF sys.ok THEN sys ELSE [ok |-> rest.ok, calls |-> sys.calls \o rest.calls]
       ELSE IF Len(name) > 0 /\ name[1] = "@"
       THEN IF cupsdCheckGroup(c.username, pw, Skip(name, 1), os) = 1
            THEN [ok |-> TRUE, calls |-> cupsdCheckGroupCalls(c.username, pw, Skip(name, 1), os)]
            ELSE [ok |-> rest.ok, calls |-> cupsdCheckGroupCalls(c.username, pw, Skip(name, 1), os) \o rest.calls]
       ELSE IF strcasecmp(c.username, name) = 0
       THEN [ok |-> TRUE, calls |-> <<>>]
       ELSE rest

\* lines 1572-1585: the group list of an AUTH_GROUP location; [ok, calls]
RECURSIVE GroupLoop(_, _, _, _, _)
GroupLoop(c, best, pw, i, os) ==
  IF i > best.num_names THEN [ok |-> FALSE, calls |-> <<>>]
  ELSE LET name == best.names[i]
           rest == GroupLoop(c, best, pw, i + 1, os)
       IN
       IF strcasecmp(name, S_SYSTEM) = 0
       THEN LET sys == SystemGroupLoop(c.username, pw, 1, os) IN
            IF sys.ok THEN sys ELSE [ok |-> rest.ok, calls |-> sys.calls \o rest.calls]
       ELSE IF cupsdCheckGroup(c.username, pw, name, os) = 1
       THEN [ok |-> TRUE, calls |-> cupsdCheckGroupCalls(c.username, pw, name, os)]
       ELSE [ok |-> rest.ok, calls |-> cupsdCheckGroupCalls(c.username, pw, name, os) \o rest.calls]

\* mutant: root is treated as any other user
CheckPrincipal_RootListed(c, best, own, pw, os) ==
  IF best.level = AUTH_USER
  THEN IF best.num_names = 0
       THEN [status |-> HTTP_OK, calls |-> <<"user check">>]
       ELSE LET r == UserLoop(c, best, own, pw, 1, os) IN
            [status |-> IF r.ok THEN HTTP_OK ELSE HTTP_UNAUTHORIZED,
             calls |-> <<"user check">> \o r.calls]
  ELSE IF best.type = AUTH_BASIC
  THEN LET r == GroupLoop(c, best, pw, 1, os) IN
       [status |-> IF r.ok THEN HTTP_OK ELSE HTTP_UNAUTHORIZED,
        calls |-> <<"group check">> \o r.calls]
  ELSE [status |-> HTTP_OK, calls |-> <<"group check">>]

\* lines 1512-1600: the verdict once the password is accepted; [status, calls]
CheckPrincipal(c, best, own, pw, os) ==
  IF strcmp(c.username, S_root) = 0
  THEN [status |-> HTTP_OK, calls |-> <<>>]
  ELSE IF best.level = AUTH_USER
  THEN IF best.num_names = 0
       THEN [status |-> HTTP_OK, calls |-> <<"user check">>]
       ELSE LET r == UserLoop(c, best, own, pw, 1, os) IN
            [status |-> IF r.ok THEN HTTP_OK ELSE HTTP_UNAUTHORIZED,
             calls |-> <<"user check">> \o r.calls]
  ELSE IF best.type = AUTH_BASIC
  THEN LET r == GroupLoop(c, best, pw, 1, os) IN
       [status |-> IF r.ok THEN HTTP_OK ELSE HTTP_UNAUTHORIZED,
        calls |-> <<"group check">> \o r.calls]
  ELSE [status |-> HTTP_OK, calls |-> <<"group check">>]

\* mutant: the satisfy mode is compared with the wrong constant
HostForbids_WhenAny(h, best) == h.auth = AUTH_DENY /\ best.satisfy = AUTH_SATISFY_ANY

\* line 1169
HostForbids(h, best) == h.auth = AUTH_DENY /\ best.satisfy = AUTH_SATISFY_ALL

\* mutant: the anonymous test of lines 1188-1189 comes before the encryption test
NeedsUpgrade_AfterAnonymous(c, best) ==
  /\ best.encryption >= HTTP_ENCRYPT_REQUIRED /\ ~c.tls
  /\ ~(best.level = AUTH_ANON \/ (best.type = AUTH_NONE /\ best.num_names = 0))

\* line 1177 (HAVE_SSL)
NeedsUpgrade(c, best) == best.encryption >= HTTP_ENCRYPT_REQUIRED /\ ~c.tls

\* lines 1188-1189
IsAnonymous(best) ==
  best.level = AUTH_ANON \/ (best.type = AUTH_NONE /\ best.num_names = 0)

\* line 1192
ChecksRequestingUser(best) == best.type = AUTH_NONE /\ best.limit = AUTH_LIMIT_IPP

\* mutant: the two conditions are joined by && instead of ||
NoUsernameStatus_Both(h, best) ==
  IF best.satisfy = AUTH_SATISFY_ALL /\ h.auth = AUTH_DENY
  THEN HTTP_UNAUTHORIZED ELSE HTTP_OK

\* lines 1215-1221: the verdict without a username
NoUsernameStatus(h, best) ==
  IF best.satisfy = AUTH_SATISFY_ALL \/ h.auth = AUTH_DENY
  THEN HTTP_UNAUTHORIZED ELSE HTTP_OK

\* lines 1166-1601, after the host verdict h (line 1166 logs it)
AfterHostVerdict(c, own, best, h, os, default) ==
  LET logged == h.calls \o <<h.auth>> IN
  IF HostForbids(h, best)
  THEN [status |-> HTTP_FORBIDDEN, calls |-> logged]
  ELSE IF NeedsUpgrade(c, best)
  THEN [status |-> HTTP_UPGRADE_REQUIRED, calls |-> logged]
  ELSE IF IsAnonymous(best)
  THEN [status |-> HTTP_OK, calls |-> logged]
  ELSE IF ChecksRequestingUser(best) /\ c.requesting_user_name
  THEN [status |-> HTTP_OK, calls |-> logged \o <<"ippFindAttribute">>]
  ELSE LET ipp == IF ChecksRequestingUser(best) THEN <<"ippFindAttribute">> ELSE <<>>
       IN
       IF c.username = <<>>
       THEN [status |-> NoUsernameStatus(h, best), calls |-> logged \o ipp]
       ELSE LET p == CheckPassword(c, best, os, default)
                pre == logged \o ipp \o <<"check password">> \o p.calls
                pw == IF p.haspw THEN getpwnam(os, c.username) ELSE NoEntry
            IN
            IF ~p.ok
            THEN [status |-> HTTP_UNAUTHORIZED, calls |-> pre]
            ELSE LET r == CheckPrincipal(c, best, own, pw, os) IN
                 [status |-> r.status, calls |-> pre \o r.calls]

\* lines 999-1601: [status, calls] for connection c with c.best an index (0: NULL)
IsAuthorized(locs, c, own, os, default) ==
  IF c.best = 0
  THEN IF strcmp(c.hostname, S_localhost) = 0 \/ strcmp(c.hostname, ServerName) = 0
       THEN [status |-> HTTP_OK, calls |-> <<>>]
       ELSE [status |-> HTTP_FORBIDDEN, calls |-> <<>>]
  ELSE AfterHostVerdict(c, own, locs[c.best],
                        HostVerdict(c, locs[c.best], os.netif), os, default)

cupsdIsAuthorized(c, own, os) == IsAuthorized(Locations, c, own, os, DefaultAuthType)

(***************************************************************************)
(* The location table and the state machine                                *)
(***************************************************************************)
HTTP_MAX_URI == 1024

MaxLocations == 2

MaxNames == 1

MaxMasks == 1

strlcpy(src, size) == Left(src, size - 1)

\* mutant: the length is taken from the argument, not from the stored path
NewLocation_LengthOfArgument(location) ==
  [location |-> strlcpy(location, HTTP_MAX_URI),
   length |-> strlen(location),
   limit |-> {}, order_type |-> AUTH_ALLOW, type |-> AUTH_NONE,
   level |-> AUTH_ANON, satisfy |-> AUTH_SATISFY_ALL,
   encryption |-> HTTP_ENCRYPT_IF_REQUESTED,
   num_names |-> 0, names |-> <<>>,
   num_allow |-> 0, allow |-> <<>>,
   num_deny |-> 0, deny |-> <<>>]

\* the record cupsdAddLocation leaves: memset 0, then the path and its length
NewLocation(location) ==
  [location |-> strlcpy(location, HTTP_MAX_URI),
   length |-> strlen(strlcpy(location, HTTP_MAX_URI)),
   limit |-> {}, order_type |-> AUTH_ALLOW, type |-> AUTH_NONE,
   level |-> AUTH_ANON, satisfy |-> AUTH_SATISFY_ALL,
   encryption |-> HTTP_ENCRYPT_IF_REQUESTED,
   num_names |-> 0, names |-> <<>>,
   num_allow |-> 0, allow |-> <<>>,
   num_deny |-> 0, deny |-> <<>>]

\* the client before any request
NoRequest ==
  [uri |-> <<>>, state |-> HTTP_WAITING, hostname |-> <<>>,
   hostaddr |-> [family |-> "AF_UNSPEC", addr |-> <<Word0, Word0, Word0, Word0>>],
   tls |-> FALSE, username |-> <<>>, password |-> <<>>, authorization |-> <<>>,
   nonce |-> NULL, requesting_user_name |-> FALSE, best |-> 0]

NoStatus == "none"

\* the password, group and interface databases before any request has read them
NoDatabases ==
  [passwd |-> {}, group |-> {}, shadow |-> {}, expired |-> {}, pam_up |-> FALSE,
   md5file |-> NoEntry, netif |-> <<>>]

Init ==
  /\ Locations = <<>>
  /\ NumLocations = 0
  /\ DefaultAuthType = AUTH_BASIC
  /\ phase = "config"
  /\ con = NoRequest
  /\ owner = NULL
  /\ sysdb = NoDatabases
  /\ status = NoStatus
  /\ calls = <<>>

\* lines 108-145 (the allocation succeeds)
cupsdAddLocation(location) ==
  /\ phase = "config"
  /\ NumLocations < MaxLocations
  /\ Locations' = Append(SubSeq(Locations, 1, NumLocations), NewLocation(location))
  /\ NumLocations' = NumLocations + 1
  /\ UNCHANGED <<DefaultAuthType, phase, con, owner, sysdb,
               status, calls>>

\* the configuration reader's stores into the location it has just added
ReadLocation(limit, order_type, type, level, satisfy, encryption) ==
  /\ phase = "config"
  /\ NumLocations > 0
  /\ Locations[NumLocations].limit = {}
  /\ Locations[NumLocations].num_names = 0
  /\ Locations[NumLocations].num_allow = 0
  /\ Locations[NumLocations].num_deny = 0
  /\ Locations' = [Locations EXCEPT ![NumLocations] =
                     [@ EXCEPT !.limit = limit, !.order_type = order_type,
                               !.type = type, !.level = level,
                               !.satisfy = satisfy, !.encryption = encryption]]
  /\ UNCHANGED <<NumLocations, DefaultAuthType, phase, con, owner, sysdb,
               status, calls>>

\* the configuration reader's store into DefaultAuthType, before any location
ReadDefaultAuthType(type) ==
  /\ phase = "config"
  /\ NumLocations = 0
  /\ DefaultAuthType = AUTH_BASIC
  /\ type # AUTH_BASIC
  /\ DefaultAuthType' = type
  /\ UNCHANGED <<Locations, NumLocations, phase, con, owner, sysdb,
               status, calls>>

\* lines 152-183 (the allocations succeed), on the location being configured
cupsdAddName(name) ==
  /\ phase = "config"
  /\ NumLocations > 0
  /\ Locations[NumLocations].num_names < MaxNames
  /\ Locations' = [Locations EXCEPT ![NumLocations] =
                     [@ EXCEPT !.names = Append(@, name), !.num_names = @ + 1]]
  /\ UNCHANGED <<NumLocations, DefaultAuthType, phase, con, owner, sysdb,
               status, calls>>

\* lines 1608-1643 and 1650-1685: the cleared mask record add_allow and add_deny return
ClearedMask ==
  [type |-> AUTH_NAME, name |-> NULL, length |-> 0,
   address |-> <<Word0, Word0, Word0, Word0>>,
   netmask |-> <<Word0, Word0, Word0, Word0>>]

\* lines 205-244 and 733-772: the mask a host name, @LOCAL or @IF(name) becomes
HostMask(name) ==
  IF strcasecmp(name, <<"@","L","O","C","A","L">>) = 0
  THEN [ClearedMask EXCEPT !.type = AUTH_INTERFACE, !.name = S_star, !.length = 1]
  ELSE IF strncasecmp(name, <<"@","I","F","(">>, 4) = 0
  THEN LET ifname == strlcpy(Skip(name, 4), 32)
           stripped == IF ifname[Len(ifname)] = ")"
                       THEN Left(ifname, Len(ifname) - 1) ELSE ifname
       IN [ClearedMask EXCEPT !.type = AUTH_INTERFACE, !.name = stripped,
                              !.length = Len(stripped)]
  ELSE [ClearedMask EXCEPT !.type = AUTH_NAME, !.name = name, !.length = strlen(name)]

\* lines 269-271 and 797-799
IPMask(address, netmask) ==
  [ClearedMask EXCEPT !.type = AUTH_IP, !.address = address, !.netmask = netmask]

\* add_allow, then the caller's stores into the new record
AddAllowMask(mask) ==
  /\ phase = "config"
  /\ NumLocations > 0
  /\ Locations[NumLocations].num_allow < MaxMasks
  /\ Locations' = [Locations EXCEPT ![NumLocations] =
                     [@ EXCEPT !.allow = Append(@, mask), !.num_allow = @ + 1]]
  /\ UNCHANGED <<NumLocations, DefaultAuthType, phase, con, owner, sysdb,
               status, calls>>

\* add_deny, then the caller's stores into the new record
AddDenyMask(mask) ==
  /\ phase = "config"
  /\ NumLocations > 0
  /\ Locations[NumLocations].num_deny < MaxMasks
  /\ Locations' = [Locations EXCEPT ![NumLocations] =
                     [@ EXCEPT !.deny = Append(@, mask), !.num_deny = @ + 1]]
  /\ UNCHANGED <<NumLocations, DefaultAuthType, phase, con, owner, sysdb,
               status, calls>>

cupsdAllowHost(name) == AddAllowMask(HostMask(name))

cupsdAllowIP(address, netmask) == AddAllowMask(IPMask(address, netmask))

cupsdDenyHost(name) == AddDenyMask(HostMask(name))

cupsdDenyIP(address, netmask) == AddDenyMask(IPMask(address, netmask))

\* lines 585-608 and 621-644: the record of the calloc'ed array after the switch
\* on the type of the original's record (there is no case for AUTH_INTERFACE)
CopyMask(mask) ==
  IF mask.type = AUTH_NAME
  THEN [ClearedMask EXCEPT !.type = AUTH_NAME, !.length = mask.length,
                           !.name = mask.name]
  ELSE IF mask.type = AUTH_IP
  THEN [ClearedMask EXCEPT !.type = AUTH_IP, !.address = mask.address,
                           !.netmask = mask.netmask]
  ELSE [ClearedMask EXCEPT !.type = mask.type]

\* lines 532-646: the record cupsdCopyLocation leaves at the end of the table
CopyOf(loc) ==
  [NewLocation(strlcpy(loc.location, HTTP_MAX_URI)) EXCEPT
     !.limit = loc.limit, !.order_type = loc.order_type, !.type = loc.type,
     !.level = loc.level, !.satisfy = loc.satisfy, !.encryption = loc.encryption,
     !.num_names = loc.num_names,
     !.names = [i \in 1..loc.num_names |-> loc.names[i]],
     !.num_allow = loc.num_allow,
     !.allow = [i \in 1..loc.num_allow |-> CopyMask(loc.allow[i])],
     !.num_deny = loc.num_deny,
     !.deny = [i \in 1..loc.num_deny |-> CopyMask(loc.deny[i])]]

\* lines 511-648 (the allocations succeed): loc is Locations + locindex - 1
cupsdCopyLocation(locindex) ==
  /\ phase = "config"
  /\ locindex \in 1..NumLocations
  /\ NumLocations < MaxLocations
  /\ Locations' = Append(SubSeq(Locations, 1, NumLocations),
                         CopyOf(Locations[locindex]))
  /\ NumLocations' = NumLocations + 1
  /\ UNCHANGED <<DefaultAuthType, phase, con, owner, sysdb,
               status, calls>>

(***************************************************************************)
(* The same operations when an allocation fails. The log (cupsdLogMessage  *)
(* at L_ERROR) is kept in calls; MaxLog bounds the failures of a run.      *)
(***************************************************************************)
MaxLog == 2

\* mutant: the count is incremented before the allocation is tried
AddNameFailed_CountIncremented(loc) == [loc EXCEPT !.num_names = @ + 1]

\* lines 162-180: the location after cupsdAddName returns on a failed malloc,
\* realloc or strdup; num_names is incremented at line 182 only
AddNameFailed(loc) == loc

\* lines 1624-1630 and 1666-1672: the location after add_allow or add_deny
\* returns NULL; the count is incremented after the allocation only
AddMaskFailed(loc) == loc

\* lines 152-183 when malloc or realloc (where = "array") or strdup fails
cupsdAddNameNoMemory(where) ==
  /\ phase = "config"
  /\ NumLocations > 0
  /\ Locations[NumLocations].num_names < MaxNames
  /\ Len(calls) < MaxLog
  /\ Locations' = [Locations EXCEPT ![NumLocations] = AddNameFailed(@)]
  /\ calls' = Append(calls, IF where = "array" THEN "Unable to add name to location"
                            ELSE "Unable to duplicate name for location")
  /\ UNCHANGED <<NumLocations, DefaultAuthType, phase, con, owner, sysdb, status>>

\* cupsdAllowHost, cupsdAllowIP, cupsdDenyHost or cupsdDenyIP when add_allow or
\* add_deny returns NULL (lines 201-202, 266-267, 729-730, 794-795)
AddMaskNoMemory ==
  /\ phase = "config"
  /\ NumLocations > 0
  /\ Locations' = [Locations EXCEPT ![NumLocations] = AddMaskFailed(@)]
  /\ UNCHANGED <<NumLocations, DefaultAuthType, phase, con, owner, sysdb,
               status, calls>>

\* lines 205-244 and 733-772 when strdup returns NULL: the result is stored
\* unchecked
HostMaskNoMemory(name) == [HostMask(name) EXCEPT !.name = NULL]

cupsdAllowHostNoMemory(name) == AddAllowMask(HostMaskNoMemory(name))

cupsdDenyHostNoMemory(name) == AddDenyMask(HostMaskNoMemory(name))

\* lines 511-648 when calloc or strdup fails after cupsdAddLocation: the new
\* record is dropped from the table (NumLocations --) and NULL is returned
cupsdCopyLocationNoMemory(locindex) ==
  /\ phase = "config"
  /\ locindex \in 1..NumLocations
  /\ NumLocations < MaxLocations
  /\ \/ Locations[locindex].num_names > 0
     \/ Locations[locindex].num_allow > 0
     \/ Locations[locindex].num_deny > 0
  /\ Len(calls) < MaxLog
  /\ calls' = Append(calls, "cupsdCopyLocation: Unable to")
  /\ UNCHANGED <<Locations, NumLocations, DefaultAuthType, phase, con, owner,
               sysdb, status>>

\* the resource of an IPP request
S_ipp == <<"/","i","p","p">>

\* a request is read (its line, its peer, its header fields), con->best is set
\* from cupsdFindBest and cupsdIsAuthorized(con, own) decides; os is what the
\* password, group and interface databases hold at that moment (kept in sysdb)
AuthorizeRequest(uri, state, peer, tls, cred, rqun, own, os) ==
  /\ phase = "config"
  /\ \E c \in {[uri |-> uri, state |-> state, hostname |-> peer.hostname,
                 hostaddr |-> peer.hostaddr, tls |-> tls,
                 username |-> cred.username, password |-> cred.password,
                 authorization |-> cred.authorization, nonce |-> cred.nonce,
                 requesting_user_name |-> rqun, best |-> cupsdFindBest(uri, state)]} :
       \E r \in {cupsdIsAuthorized(c, own, os)} :
         /\ con' = c
         /\ owner' = own
         /\ sysdb' = os
         /\ status' = r.status
         /\ calls' = r.calls
  /\ phase' = "serve"
  /\ UNCHANGED <<Locations, NumLocations, DefaultAuthType>>

\* an IPP operation is checked against a policy: the caller sets con->best to
\* the Location of the operation itself and cupsdIsAuthorized(con, own) decides
AuthorizeOperation(best, state, peer, tls, cred, rqun, own, os) ==
  /\ phase = "config"
  /\ best \in 1..NumLocations
  /\ \E c \in {[uri |-> S_ipp, state |-> state, hostname |-> peer.hostname,
                 hostaddr |-> peer.hostaddr, tls |-> tls,
                 username |-> cred.username, password |-> cred.password,
                 authorization |-> cred.authorization, nonce |-> cred.nonce,
                 requesting_user_name |-> rqun, best |-> best]} :
       \E r \in {cupsdIsAuthorized(c, own, os)} :
         /\ con' = c
         /\ owner' = own
         /\ sysdb' = os
         /\ status' = r.status
         /\ calls' = r.calls
  /\ phase' = "serve"
  /\ UNCHANGED <<Locations, NumLocations, DefaultAuthType>>

\* the client's request line is read and con->best is set from cupsdFindBest.
\* The table is read-only while requests are served and every request starts
\* from a fresh client record, so a behaviour serves one request.
FindBestRequest(uri, state) ==
  /\ phase = "config"
  /\ con' = [NoRequest EXCEPT !.uri = uri, !.state = state,
                              !.best = cupsdFindBest(uri, state)]
  /\ phase' = "serve"
  /\ owner' = NULL
  /\ sysdb' = NoDatabases
  /\ status' = NoStatus
  /\ calls' = <<>>
  /\ UNCHANGED <<Locations, NumLocations, DefaultAuthType>>

(***************************************************************************)
(* SpecFind: locations with sample paths and verb masks, then requests     *)
(***************************************************************************)
S_slash == <<"/">>
S_admin == <<"/","a","d","m","i","n","/">>
S_admin_noslash == <<"a","d","m","i","n">>
S_printers_foo == S_printers \o <<"f","o","o">>
S_printers_foo_ppd == S_printers_foo \o S_ppd
S_PRINTERS_Foo == <<"/","P","R","I","N","T","E","R","S","/","F","o","o">>
S_Admin_x == <<"/","A","d","m","i","n","/","x">>
S_admin_foo_ppd == S_admin \o <<"f","o","o">> \o S_ppd
S_printers_Foo == S_printers \o <<"F","o","o">>

\* a path one byte longer than the location buffer holds
S_long == [i \in 1..HTTP_MAX_URI |-> IF i = 1 THEN "/" ELSE "a"]

FindLocationPaths ==
  {S_slash, S_admin, S_printers, S_printers_foo, S_printers_foo_ppd,
   S_admin_foo_ppd, S_admin_noslash, <<>>, S_long}

FindLimits == {AUTH_LIMIT_ALL, AUTH_LIMIT_GET, AUTH_LIMIT_IPP}

FindURIs ==
  {S_admin, S_admin \o <<"x">>, S_Admin_x, S_admin_foo_ppd, S_printers_foo,
   S_printers_foo_ppd, S_PRINTERS_Foo, S_printers_Foo,
   S_admin_noslash \o <<"/","x">>}

FindStates == {HTTP_WAITING, HTTP_GET, HTTP_POST}

FindAddLocation == \E location \in FindLocationPaths : cupsdAddLocation(location)

FindReadLocation ==
  \E limit \in FindLimits :
    ReadLocation(limit, AUTH_ALLOW, AUTH_NONE, AUTH_ANON, AUTH_SATISFY_ALL,
                 HTTP_ENCRYPT_IF_REQUESTED)

FindRequest == \E uri \in FindURIs, state \in FindStates : FindBestRequest(uri, state)

FindCopyLocation == \E locindex \in 1..NumLocations : cupsdCopyLocation(locindex)

NextFind == FindAddLocation \/ FindReadLocation \/ FindCopyLocation \/ FindRequest

SpecFind == Init /\ [][NextFind]_vars

(***************************************************************************)
(* Claims about cupsdFindBest (under SpecFind)                             *)
(***************************************************************************)
IsPrefix(p, r) == Len(p) <= Len(r) /\ SubSeq(r, 1, Len(p)) = p

BeginsWithSlash(p) == Len(p) > 0 /\ p[1] = "/"

EndsWithPPD(r) == Len(r) >= 4 /\ SubSeq(r, Len(r) - 3, Len(r)) = S_ppd

IsQueuePath(r) == IsPrefix(S_printers, r) \/ IsPrefix(S_classes, r)

\* the request path as find-best compares it
SeenPath(r) ==
  IF IsQueuePath(r) /\ EndsWithPPD(r) THEN SubSeq(r, 1, Len(r) - 4) ELSE r

VerbIncluded(loc) == (limits[con.state + 1] \cap loc.limit) # {}

\* loc's path is a prefix of the path find-best sees, under the case policy
PathGoverns(loc, r) ==
  /\ BeginsWithSlash(loc.location)
  /\ IF IsQueuePath(SeenPath(r))
     THEN IsPrefix(Fold(loc.location), Fold(SeenPath(r)))
     ELSE IsPrefix(loc.location, SeenPath(r))

Served == phase = "serve"

\* C1 as stated: of two Locations whose paths begin with "/", p1 a proper
\* prefix of p2 and p2 a prefix of the request path, find-best returns p2 iff
\* p2's verb mask includes the request verb, otherwise p1 if p1's mask does,
\* otherwise none.
C1_Original ==
  (Served /\ NumLocations = 2) =>
    \A i, j \in 1..NumLocations :
      ( /\ BeginsWithSlash(Locations[i].location)
        /\ IsPrefix(Locations[i].location, Locations[j].location)
        /\ Len(Locations[i].location) < Len(Locations[j].location)
        /\ IsPrefix(Locations[j].location, con.uri) )
      => con.best = IF VerbIncluded(Locations[j]) THEN j
                    ELSE IF VerbIncluded(Locations[i]) THEN i ELSE 0

\* C1 amended: the same with "prefix of the request path" read as find-best
\* reads it (a trailing .ppd is dropped from a /printers/ or /classes/ path,
\* which is then compared case-insensitively); and in any table the result is
\* a longest Location whose path begins with "/", governs that path and whose
\* verb mask includes the request verb, or none when there is no such Location.
C1_LongestPrefixWins ==
  Served =>
    LET M == {k \in 1..NumLocations :
                PathGoverns(Locations[k], con.uri) /\ VerbIncluded(Locations[k])}
    IN /\ IF M = {} THEN con.best = 0
          ELSE /\ con.best \in M
               /\ \A k \in M : Len(Locations[k].location)
                                 <= Len(Locations[con.best].location)
       /\ NumLocations = 2 =>
            \A i, j \in 1..NumLocations :
              ( /\ PathGoverns(Locations[i], con.uri)
                /\ PathGoverns(Locations[j], con.uri)
                /\ Len(Locations[i].location) < Len(Locations[j].location) )
              => con.best = IF VerbIncluded(Locations[j]) THEN j
                            ELSE IF VerbIncluded(Locations[i]) THEN i ELSE 0

\* C1 witness: the longer of two governing Locations is the first in the table
\* and excludes the verb, the shorter one includes it and is returned
C1_Witness ==
  /\ Served /\ NumLocations = 2
  /\ PathGoverns(Locations[1], con.uri) /\ PathGoverns(Locations[2], con.uri)
  /\ Len(Locations[2].location) < Len(Locations[1].location)
  /\ ~VerbIncluded(Locations[1]) /\ VerbIncluded(Locations[2])
  /\ con.best = 2

(***************************************************************************)
(* Sample peers, credentials and databases for the authorizer              *)
(***************************************************************************)
S_amy == <<"a","m","y">>
S_good == <<"g","o","o","d">>
S_bad == <<"b","a","d">>
S_adm == <<"a","d","m">>
S_eth0 == <<"e","t","h","0">>
S_ppp0 == <<"p","p","p","0">>

\* a peer: the hostname cupsd resolved and the socket address (network order)
PeerV4(hostname, a, b, c, d) ==
  [hostname |-> hostname,
   hostaddr |-> [family |-> "AF_INET", addr |-> <<Word0, Word0, Word0, htonl(IPv4(a, b, c, d))>>]]

P_localhost == PeerV4(S_localhost, 127, 0, 0, 1)
P_LocalHost == PeerV4(<<"L","o","c","a","l","H","o","s","t">>, 127, 0, 0, 1)
P_srv == PeerV4(ServerName, 10, 2, 0, 1)
P_h_ex == PeerV4(<<"h",".","e","x">>, 10, 1, 2, 3)
P_a_org == PeerV4(<<"a",".","o","r","g">>, 10, 2, 0, 9)
P_b_org == PeerV4(<<"b",".","o","r","g">>, 192, 0, 2, 5)
P_six ==
  [hostname |-> <<"s","i","x">>,
   hostaddr |-> [family |-> "AF_INET6",
                 addr |-> <<htonl(IPv4(254, 128, 0, 0)), Word0, Word0, htonl(IPv4(0, 0, 0, 1))>>]]

\* NetIFList: eth0 is a local interface on 10.2.0.0/16, ppp0 a point-to-point one
NetIFs ==
  << [name |-> S_eth0, is_local |-> TRUE, family |-> "AF_INET",
      address |-> <<Word0, Word0, Word0, htonl(IPv4(10, 2, 0, 7))>>,
      mask |-> <<Word0, Word0, Word0, htonl(IPv4(255, 255, 0, 0))>>],
     [name |-> S_ppp0, is_local |-> FALSE, family |-> "AF_INET",
      address |-> <<Word0, Word0, Word0, htonl(IPv4(192, 0, 2, 1))>>,
      mask |-> <<Word0, Word0, Word0, htonl(IPv4(255, 255, 255, 0))>>] >>

\* amy is an OS user in OS group adm with password "good", root's is "good"
\* too; passwd.md5 holds amy's digest under group adm
OsA ==
  [passwd |-> {[pw_name |-> S_amy, pw_gid |-> 100], [pw_name |-> S_root, pw_gid |-> 0]},
   group |-> {[gr_name |-> <<"s","y","s">>, gr_gid |-> 3, gr_mem |-> <<S_root>>],
              [gr_name |-> S_adm, gr_gid |-> 4, gr_mem |-> <<S_amy>>]},
   shadow |-> {<<S_amy, S_good>>, <<S_root, S_good>>},
   expired |-> {},
   pam_up |-> TRUE,
   md5file |-> [lines |-> << [ok |-> TRUE, user |-> S_amy, group |-> S_adm,
                              passwd |-> httpMD5(S_amy, S_CUPS, S_good)] >>],
   netif |-> NetIFs]

\* the same with an OS group named OWNER that lists amy
OsB ==
  [OsA EXCEPT !.group = @ \cup {[gr_name |-> <<"O","W","N","E","R">>, gr_gid |-> 9,
                                gr_mem |-> <<S_amy>>]}]

NoCredentials ==
  [username |-> <<>>, password |-> <<>>, authorization |-> <<>>, nonce |-> NULL]

\* Authorization: Basic, decoded by the caller into username and password
BasicCredentials(username, password) ==
  [username |-> username, password |-> password,
   authorization |-> <<"B","a","s","i","c">>, nonce |-> NULL]

\* Authorization: Local (a certificate); the caller sets the username only
LocalCredentials(username) ==
  [username |-> username, password |-> <<>>,
   authorization |-> S_Local \o <<" ","c">>, nonce |-> NULL]

\* Authorization: Digest, the response a client computes from password
DigestCredentials(username, password, nonce, method, uri) ==
  [username |-> username,
   password |-> httpMD5Final(nonce, method, uri, httpMD5(username, S_CUPS, password)),
   authorization |-> <<"D","i","g","e","s","t">>, nonce |-> nonce]

Net10 == <<Word0, Word0, Word0, IPv4(10, 0, 0, 0)>>
Mask8 == <<Word0, Word0, Word0, IPv4(255, 0, 0, 0)>>
Net10_1 == <<Word0, Word0, Word0, IPv4(10, 1, 0, 0)>>
Mask16 == <<Word0, Word0, Word0, IPv4(255, 255, 0, 0)>>

(***************************************************************************)
(* SpecHost: one location "/" with sample allow and deny masks, order,     *)
(* satisfy and encryption, then one request from a sample peer             *)
(***************************************************************************)
HostAllowNames == {<<".","e","x">>, <<"@","L","O","C","A","L">>,
                   <<"@","I","F","(","p","p","p","0",")">>}

HostDenyNames == {<<"a",".","o","r","g">>, <<"@","l","o","c","a","l">>}

HostPeers == {P_localhost, P_LocalHost, P_srv, P_h_ex, P_a_org, P_b_org, P_six}

HostCredentials == {NoCredentials, BasicCredentials(S_amy, S_good)}

HostAddLocation == NumLocations = 0 /\ cupsdAddLocation(S_slash)

HostReadLocation ==
  \E order_type \in {AUTH_ALLOW, AUTH_DENY}, type \in {AUTH_NONE, AUTH_BASIC},
     level \in {AUTH_ANON, AUTH_USER}, satisfy \in {AUTH_SATISFY_ALL, AUTH_SATISFY_ANY},
     encryption \in {HTTP_ENCRYPT_IF_REQUESTED, HTTP_ENCRYPT_REQUIRED} :
    ReadLocation(AUTH_LIMIT_ALL, order_type, type, level, satisfy, encryption)

HostAllowHost == \E name \in HostAllowNames : cupsdAllowHost(name)

HostAllowIP == cupsdAllowIP(Net10, Mask8)

HostDenyHost == \E name \in HostDenyNames : cupsdDenyHost(name)

HostDenyIP == cupsdDenyIP(Net10_1, Mask16)

HostRequest ==
  \E state \in {HTTP_GET, HTTP_POST}, peer \in HostPeers, tls \in BOOLEAN,
     cred \in HostCredentials :
    AuthorizeRequest(S_slash, state, peer, tls, cred, FALSE, NULL, OsA)

NextHost ==
  \/ HostAddLocation \/ HostReadLocation
  \/ HostAllowHost \/ HostAllowIP \/ HostDenyHost \/ HostDenyIP
  \/ HostRequest

SpecHost == Init /\ [][NextHost]_vars

(***************************************************************************)
(* SpecAuth: one location "/" with every scheme, level and satisfy mode    *)
(* under every default scheme, at most one principal and one deny mask,    *)
(* then one GET request with sample credentials                            *)
(***************************************************************************)
AuthNames == {S_OWNER, S_SYSTEM, <<"@">> \o S_adm, S_amy, S_adm}

AuthPeers == {P_localhost, P_h_ex, P_a_org}

AuthCredentials(peer) ==
  {NoCredentials,
   BasicCredentials(S_amy, S_good), BasicCredentials(S_amy, S_bad),
   BasicCredentials(S_amy, <<>>),
   BasicCredentials(S_root, S_good), BasicCredentials(S_root, S_bad),
   LocalCredentials(S_amy), LocalCredentials(S_root),
   DigestCredentials(S_amy, S_good, peer.hostname, "GET", S_slash)}

AuthOwners == {NULL, S_amy}

AuthDatabases == {OsA, OsB}

AuthReadDefaultAuthType ==
  \E type \in AuthTypes : ReadDefaultAuthType(type)

AuthAddLocation == NumLocations = 0 /\ cupsdAddLocation(S_slash)

AuthReadLocation ==
  \E type \in AuthTypes, level \in AuthLevels,
     satisfy \in {AUTH_SATISFY_ALL, AUTH_SATISFY_ANY} :
    ReadLocation(AUTH_LIMIT_ALL, AUTH_ALLOW, type, level, satisfy,
                 HTTP_ENCRYPT_IF_REQUESTED)

AuthAddName == \E name \in AuthNames : cupsdAddName(name)

AuthDenyIP == cupsdDenyIP(Net10_1, Mask16)

AuthRequest ==
  \E peer \in AuthPeers, own \in AuthOwners, os \in AuthDatabases :
    \E cred \in AuthCredentials(peer) :
      /\ Locations # <<>>
      /\ AuthorizeRequest(S_slash, HTTP_GET, peer, FALSE, cred, FALSE, own, os)

NextAuth ==
  \/ AuthReadDefaultAuthType \/ AuthAddLocation \/ AuthReadLocation
  \/ AuthAddName \/ AuthDenyIP
  \/ AuthRequest

SpecAuth == Init /\ [][NextAuth]_vars

(***************************************************************************)
(* Claims about cupsdIsAuthorized (under SpecHost and SpecAuth)            *)
(***************************************************************************)
\* cupsdIsAuthorized has returned
Authorized == phase = "serve" /\ status # NoStatus

\* a Location governs the request
Governed == Authorized /\ con.best # 0

Best == Locations[con.best]

InCalls(x) == \E i \in DOMAIN calls : calls[i] = x

\* the spec's names of the order modes
AllowThenDeny == AUTH_ALLOW

DenyThenAllow == AUTH_DENY

\* the peer's hostname is localhost in some letter case
PeerIsLocalhost == Fold(con.hostname) = S_localhost

SomeMaskMatches(num_masks, masks) ==
  \E i \in 1..num_masks :
    MaskMatches(masks[i], PeerAddress(con.hostaddr), con.hostname,
                Len(con.hostname), NetIFs)

\* the verdict the order mode prescribes for a peer that is not localhost
OrderVerdict ==
  LET allowed == SomeMaskMatches(Best.num_allow, Best.allow)
      denied == SomeMaskMatches(Best.num_deny, Best.deny)
  IN IF Best.order_type = AllowThenDeny
     THEN IF ~denied \/ allowed THEN AUTH_ALLOW ELSE AUTH_DENY
     ELSE IF allowed /\ ~denied THEN AUTH_ALLOW ELSE AUTH_DENY

HostAllowed == PeerIsLocalhost \/ OrderVerdict = AUTH_ALLOW

HostDenied == ~HostAllowed

\* the example of the order mode precedence property
ExampleLists ==
  /\ Best.num_allow = 1 /\ Best.allow[1] = IPMask(Net10, Mask8)
  /\ Best.num_deny = 1 /\ Best.deny[1] = IPMask(Net10_1, Mask16)
  /\ con.hostaddr = P_h_ex.hostaddr

\* C2: for a peer that is not localhost the host verdict (line 1166 logs it) is
\* Allow under AllowThenDeny iff no deny mask matches or some allow mask
\* matches, and under DenyThenAllow iff some allow mask matches and no deny mask
\* does; with allow 10.0.0.0/8 and deny 10.1.0.0/16 peer 10.1.2.3 is allowed
\* under AllowThenDeny and denied under DenyThenAllow.
C2_OrderModeVerdict ==
  (Governed /\ ~PeerIsLocalhost) =>
    /\ InCalls(OrderVerdict)
    /\ ~InCalls(IF OrderVerdict = AUTH_ALLOW THEN AUTH_DENY ELSE AUTH_ALLOW)
    /\ ExampleLists =>
         InCalls(IF Best.order_type = AllowThenDeny THEN AUTH_ALLOW ELSE AUTH_DENY)

\* C2 witness: the example under AllowThenDeny, where the deny mask and the
\* allow mask both match 10.1.2.3 and the verdict is Allow
C2_Witness ==
  /\ Governed /\ ~PeerIsLocalhost /\ ExampleLists
  /\ Best.order_type = AllowThenDeny
  /\ SomeMaskMatches(Best.num_deny, Best.deny)
  /\ InCalls(AUTH_ALLOW)

\* the library calls and stage marks of credential verification and after
CredentialCalls ==
  {"check password", "getpwnam", "endpwent", "pam_start", "pam_authenticate",
   "pam_acct_mgmt", "pam_end", "httpGetSubField(nonce)", "cupsdGetMD5Passwd",
   "httpMD5Final", "httpMD5", "password ok", "user check", "group check",
   "cupsdCheckGroup", "getgrnam", "endgrent", "cupsFileOpen",
   "cupsFileOpen(NULL)", "cupsFileGets", "cupsFileClose"}

\* C3: with satisfy = All and a host verdict of Deny the result is FORBIDDEN and
\* nothing of credential verification has run (no user lookup, PAM call, nonce
\* check or digest-file read), whatever credentials came with the request.
C3_ForbiddenBeforeCredentials ==
  (Governed /\ Best.satisfy = AUTH_SATISFY_ALL /\ HostDenied) =>
    /\ status = HTTP_FORBIDDEN
    /\ \A i \in DOMAIN calls : calls[i] \notin CredentialCalls

\* C3 witness: root with the right password is refused from a denied host
C3_Witness ==
  /\ Governed /\ Best.satisfy = AUTH_SATISFY_ALL /\ HostDenied
  /\ Best.level = AUTH_USER /\ Best.type = AUTH_BASIC
  /\ con.username = S_root /\ con.password = S_good
  /\ status = HTTP_FORBIDDEN

\* the localhost certificate case of lines 1233-1234
LocalCertificate ==
  PeerIsLocalhost /\ Len(con.authorization) >= 5
                  /\ SubSeq(con.authorization, 1, 5) = S_Local

AsksNothing ==
  Best.level = AUTH_ANON \/ (Best.type = AUTH_NONE /\ Best.num_names = 0)

EncryptionMet == ~(Best.encryption = HTTP_ENCRYPT_REQUIRED /\ ~con.tls)

\* C5: host-deny with satisfy = All gives FORBIDDEN even when encryption is
\* required on a connection without TLS; otherwise required encryption without
\* TLS gives UPGRADE_REQUIRED even when the Location asks nothing (level
\* Anonymous, or scheme None without principals); only then does such a
\* Location give OK.
C5_StepOrder ==
  Governed =>
    /\ (Best.satisfy = AUTH_SATISFY_ALL /\ HostDenied) => status = HTTP_FORBIDDEN
    /\ (~(Best.satisfy = AUTH_SATISFY_ALL /\ HostDenied) /\ ~EncryptionMet)
         => status = HTTP_UPGRADE_REQUIRED
    /\ (~(Best.satisfy = AUTH_SATISFY_ALL /\ HostDenied) /\ EncryptionMet /\ AsksNothing)
         => status = HTTP_OK

\* C5 witness: an Anonymous Location that requires encryption answers a request
\* without TLS from an allowed host with UPGRADE_REQUIRED
C5_Witness ==
  /\ Governed /\ Best.level = AUTH_ANON /\ HostAllowed /\ ~EncryptionMet
  /\ status = HTTP_UPGRADE_REQUIRED

\* C6: a peer whose hostname is "localhost" in any letter case gets the host
\* verdict Allow from every governing Location, the lists are not evaluated,
\* and the result is never FORBIDDEN.
C6_LocalhostAllowed ==
  (Governed /\ PeerIsLocalhost) =>
    /\ InCalls(AUTH_ALLOW) /\ ~InCalls(AUTH_DENY)
    /\ ~InCalls("cupsdCheckAuth(allow)") /\ ~InCalls("cupsdCheckAuth(deny)")
    /\ status # HTTP_FORBIDDEN

\* C6 witness: "LocalHost" under DenyThenAllow with satisfy = All and no allow
\* mask that matches it
C6_Witness ==
  /\ Governed /\ PeerIsLocalhost /\ con.hostname # S_localhost
  /\ Best.order_type = DenyThenAllow /\ Best.satisfy = AUTH_SATISFY_ALL
  /\ OrderVerdict = AUTH_DENY
  /\ status # HTTP_FORBIDDEN

\* C7 as stated: in the Local certificate case with a claimed username the
\* password is not verified, and OK is only returned for root or after the
\* principal check (the user list, or a group lookup) has been applied.
C7_Original ==
  (Governed /\ LocalCertificate /\ con.username # <<>> /\ ~AsksNothing) =>
    /\ ~InCalls("password ok") /\ ~InCalls("pam_start")
    /\ status = HTTP_OK =>
         \/ con.username = S_root
         \/ InCalls("user check")
         \/ InCalls("cupsdCheckGroup")

\* C8 as stated: without a governing Location the result is OK iff the hostname
\* is localhost, as the host filter tests it, or the server name, and FORBIDDEN
\* otherwise.
C8_Original ==
  (Authorized /\ con.best = 0) =>
    /\ status \in {HTTP_OK, HTTP_FORBIDDEN}
    /\ status = HTTP_OK <=> (PeerIsLocalhost \/ con.hostname = ServerName)

\* C9 as stated: level User, principals [@OWNER], a verified user other than
\* root: OK iff an owner was supplied and equals the username; UNAUTHORIZED
\* without an owner.
C9_Original ==
  ( /\ Governed /\ Best.level = AUTH_USER /\ Best.names = <<S_OWNER>>
    /\ InCalls("password ok") /\ con.username # S_root ) =>
    /\ status = HTTP_OK <=> (owner # NULL /\ Fold(owner) = Fold(con.username))
    /\ owner = NULL => status = HTTP_UNAUTHORIZED

\* C10 as stated: satisfy = Any on a Location that requires a principal, the
\* encryption requirement met: OK whenever the host verdict is Allow, and OK
\* only if the host verdict is Allow or the credentials were verified.
C10_Original ==
  (Governed /\ Best.satisfy = AUTH_SATISFY_ANY /\ ~AsksNothing /\ EncryptionMet) =>
    /\ HostAllowed => status = HTTP_OK
    /\ status = HTTP_OK => (HostAllowed \/ InCalls("password ok"))

(***************************************************************************)
(* SpecDigest: one location "/" under the Digest and BasicDigest schemes   *)
(* (its own or the server default), level User or Group, at most one       *)
(* principal, then one GET request against sample passwd.md5 files         *)
(***************************************************************************)
S_ops == <<"o","p","s">>
S_sys == <<"s","y","s">>
S_stale == <<"s","t","a","l","e">>

MD5Line(user, group, password) ==
  [ok |-> TRUE, user |-> user, group |-> group,
   passwd |-> httpMD5(user, S_CUPS, password)]

\* passwd.md5 holds amy and root under group ops only
OsOps ==
  [OsA EXCEPT !.md5file = [lines |-> <<MD5Line(S_amy, S_ops, S_good),
                                       MD5Line(S_root, S_ops, S_good)>>]]

\* passwd.md5 holds amy and root under the system group, after a malformed line
OsSys ==
  [OsA EXCEPT !.md5file =
     [lines |-> <<[ok |-> FALSE, user |-> S_amy, group |-> S_adm, passwd |-> <<>>],
                  MD5Line(S_amy, S_sys, S_good), MD5Line(S_root, S_sys, S_good)>>]]

\* passwd.md5 cannot be opened
OsNoFile == [OsA EXCEPT !.md5file = NoEntry]

DigestDatabases == {OsA, OsOps, OsSys, OsNoFile}

DigestNames == {S_SYSTEM, S_adm, <<"@">> \o S_adm}

DigestPeers == {P_localhost, P_a_org}

DigestRequestCredentials(peer) ==
  {DigestCredentials(S_amy, S_good, peer.hostname, "GET", S_slash),
   DigestCredentials(S_amy, S_good, S_stale, "GET", S_slash),
   DigestCredentials(S_root, S_good, peer.hostname, "GET", S_slash),
   DigestCredentials(S_root, S_good, S_stale, "GET", S_slash),
   BasicCredentials(S_amy, S_good), BasicCredentials(S_amy, S_bad),
   BasicCredentials(S_root, S_good)}

DigestReadDefaultAuthType ==
  \E type \in {AUTH_DIGEST, AUTH_BASICDIGEST} : ReadDefaultAuthType(type)

DigestAddLocation == NumLocations = 0 /\ cupsdAddLocation(S_slash)

DigestReadLocation ==
  \E type \in {AUTH_NONE, AUTH_DIGEST, AUTH_BASICDIGEST},
     level \in {AUTH_USER, AUTH_GROUP} :
    ReadLocation(AUTH_LIMIT_ALL, AUTH_ALLOW, type, level, AUTH_SATISFY_ALL,
                 HTTP_ENCRYPT_IF_REQUESTED)

DigestAddName == \E name \in DigestNames : cupsdAddName(name)

DigestRequest ==
  \E peer \in DigestPeers, os \in DigestDatabases :
    \E cred \in DigestRequestCredentials(peer) :
      /\ Locations # <<>>
      /\ AuthorizeRequest(S_slash, HTTP_GET, peer, FALSE, cred, FALSE, NULL, os)

NextDigest ==
  \/ DigestReadDefaultAuthType \/ DigestAddLocation \/ DigestReadLocation
  \/ DigestAddName
  \/ DigestRequest

SpecDigest == Init /\ [][NextDigest]_vars

\* credential verification was reached: a username came and the request is
\* not the Local certificate case
ReachedVerification == Governed /\ InCalls("check password") /\ ~LocalCertificate

\* the scheme the Location or, when it has none, the server default selects
Selected == SelectedType(Best, DefaultAuthType)

\* C11: under the Digest scheme a request that reaches credential verification
\* without a nonce, or with a nonce other than the peer's hostname, gets
\* UNAUTHORIZED and passwd.md5 is not read, whoever the user is (root
\* included) and whatever the response is.
C11_DigestNonceBinding ==
  ( /\ ReachedVerification /\ Selected = AUTH_DIGEST
    /\ (con.nonce = NULL \/ con.nonce # con.hostname) ) =>
    /\ status = HTTP_UNAUTHORIZED
    /\ ~InCalls("cupsdGetMD5Passwd")

\* C11 witness: root, whose digest is in passwd.md5, sends the response that
\* fits a nonce other than the hostname
C11_Witness ==
  /\ ReachedVerification /\ Selected = AUTH_DIGEST
  /\ con.username = S_root /\ con.nonce = S_stale
  /\ con.password =
       httpMD5Final(S_stale, "GET", con.uri, httpMD5(S_root, S_CUPS, S_good))
  /\ cupsdGetMD5Passwd(S_root, NULL, sysdb.md5file) # NULL
  /\ status = HTTP_UNAUTHORIZED

\* the groups the Location's principals permit: @SYSTEM stands for the system
\* groups, a name of a Group-level Location is a group, and so is the rest of
\* an @name of a User-level Location
PermittedGroups ==
  UNION { IF Fold(Best.names[i]) = Fold(S_SYSTEM)
          THEN {SystemGroups[j] : j \in 1..NumSystemGroups}
          ELSE IF Best.level = AUTH_GROUP THEN {Best.names[i]}
          ELSE IF Best.names[i] # <<>> /\ Best.names[i][1] = "@"
          THEN {Skip(Best.names[i], 1)}
          ELSE {} : i \in 1..Best.num_names }

\* passwd.md5 can be read and holds a well-formed line user:group:digest
HasMD5Entry(user, group) ==
  /\ sysdb.md5file # NoEntry
  /\ \E i \in DOMAIN sysdb.md5file.lines :
       /\ sysdb.md5file.lines[i].ok
       /\ sysdb.md5file.lines[i].user = user
       /\ sysdb.md5file.lines[i].group = group

\* C12 as stated: under Digest or BasicDigest, when the Location names
\* permitted groups and passwd.md5 has no entry of the user under any of them,
\* credential verification fails and the result is UNAUTHORIZED.
C12_Original ==
  ( /\ ReachedVerification /\ Selected \in {AUTH_DIGEST, AUTH_BASICDIGEST}
    /\ PermittedGroups # {}
    /\ \A g \in PermittedGroups : ~HasMD5Entry(con.username, g) ) =>
    /\ ~InCalls("password ok")
    /\ status = HTTP_UNAUTHORIZED

\* what holds of the Group level: C12 with the Location's level being Group
C12_GroupLevelFailsClosed ==
  ( /\ ReachedVerification /\ Selected \in {AUTH_DIGEST, AUTH_BASICDIGEST}
    /\ Best.level = AUTH_GROUP /\ PermittedGroups # {}
    /\ \A g \in PermittedGroups : ~HasMD5Entry(con.username, g) ) =>
    /\ ~InCalls("password ok")
    /\ status = HTTP_UNAUTHORIZED

\* GroupResolver reports the user a member of one of the permitted groups
InPermittedGroup ==
  \E g \in PermittedGroups :
    cupsdCheckGroup(con.username, getpwnam(sysdb, con.username), g, sysdb) = 1

\* C13 as stated: for level Group a verified user other than root gets OK iff
\* GroupResolver reports membership in a listed group (@SYSTEM standing for
\* the system groups) and UNAUTHORIZED otherwise, under every scheme.
C13_Original ==
  ( /\ Governed /\ Best.level = AUTH_GROUP
    /\ InCalls("password ok") /\ con.username # S_root ) =>
    /\ status \in {HTTP_OK, HTTP_UNAUTHORIZED}
    /\ status = HTTP_OK <=> InPermittedGroup

\* C13 for the failing input: the Location has no scheme of its own, the server
\* default is Basic, and amy is in no system group
C13_DefaultBasic ==
  ( /\ Governed /\ Best.level = AUTH_GROUP /\ Best.type = AUTH_NONE
    /\ DefaultAuthType = AUTH_BASIC /\ Best.names = <<S_SYSTEM>>
    /\ InCalls("password ok") /\ con.username = S_amy ) =>
    status = HTTP_UNAUTHORIZED

(***************************************************************************)
(* SpecGroup: cupsdCheckGroup as cupsdIsAuthorized calls it for a User     *)
(* level Location with one @group principal, on requests with a Local      *)
(* certificate (the user record passed is getpwnam's answer)               *)
(***************************************************************************)
S_AMY == <<"A","M","Y">>
S_bob == <<"b","o","b">>
S_dan == <<"d","a","n">>
S_staff == <<"s","t","a","f","f">>

\* amy is listed in adm and has staff as primary group; dan has adm as primary
\* group; bob is no OS user and is in passwd.md5 under ops (no OS group) and
\* adm, and on a malformed line under staff
OsGroups ==
  [passwd |-> {[pw_name |-> S_amy, pw_gid |-> 100], [pw_name |-> S_dan, pw_gid |-> 4]},
   group |-> {[gr_name |-> S_sys, gr_gid |-> 3, gr_mem |-> <<S_root>>],
              [gr_name |-> S_adm, gr_gid |-> 4, gr_mem |-> <<S_root, S_amy>>],
              [gr_name |-> S_staff, gr_gid |-> 100, gr_mem |-> <<>>]},
   shadow |-> {<<S_amy, S_good>>},
   expired |-> {},
   pam_up |-> TRUE,
   md5file |-> [lines |-> <<[ok |-> FALSE, user |-> S_bob, group |-> S_staff,
                             passwd |-> <<>>],
                            MD5Line(S_bob, S_ops, S_good),
                            MD5Line(S_bob, S_adm, S_good)>>],
   netif |-> NetIFs]

GroupDatabases ==
  {OsGroups, [OsGroups EXCEPT !.md5file = NoEntry], [OsGroups EXCEPT !.group = {}]}

GroupNames == {<<"@">> \o S_adm, <<"@">> \o S_staff, <<"@">> \o S_ops}

GroupUsers == {S_amy, S_AMY, S_bob, S_dan}

GroupAddLocation == NumLocations = 0 /\ cupsdAddLocation(S_slash)

GroupReadLocation ==
  \E type \in AuthTypes, satisfy \in {AUTH_SATISFY_ALL, AUTH_SATISFY_ANY} :
    ReadLocation(AUTH_LIMIT_ALL, AUTH_ALLOW, type, AUTH_USER, satisfy,
                 HTTP_ENCRYPT_IF_REQUESTED)

GroupAddName == \E name \in GroupNames : cupsdAddName(name)

GroupRequest ==
  \E username \in GroupUsers, os \in GroupDatabases :
    /\ Locations # <<>>
    /\ AuthorizeRequest(S_slash, HTTP_GET, P_localhost, FALSE,
                        LocalCredentials(username), FALSE, NULL, os)

NextGroup == GroupAddLocation \/ GroupReadLocation \/ GroupAddName \/ GroupRequest

SpecGroup == Init /\ [][NextGroup]_vars

\* the OS group exists and lists the user, letter case aside
ListedInGroup(user, group) ==
  \E g \in sysdb.group :
    g.gr_name = group /\ \E i \in DOMAIN g.gr_mem : Fold(g.gr_mem[i]) = Fold(user)

\* the OS group exists and is the primary group of the user's passwd record
PrimaryGroup(user, group) ==
  \E g \in sysdb.group, p \in sysdb.passwd :
    g.gr_name = group /\ p.pw_name = user /\ p.pw_gid = g.gr_gid

\* the request whose verdict is cupsdCheckGroup's answer: a Local certificate
\* for a user other than root, a User level Location with @group principals
GroupLookupDecides ==
  /\ Governed /\ LocalCertificate /\ con.username # S_root
  /\ Best.level = AUTH_USER /\ Best.num_names > 0 /\ ~AsksNothing
  /\ \A i \in 1..Best.num_names : Best.names[i] \in GroupNames

\* C14: cupsdCheckGroup answers true iff the OS group exists and lists the user
\* (case-insensitively), or the OS group exists and is the primary group of the
\* user record given, or passwd.md5 has an entry of the user under the group.
C14_GroupTriSource ==
  GroupLookupDecides =>
    ( status = HTTP_OK <=>
        \E i \in 1..Best.num_names :
          LET group == Skip(Best.names[i], 1) IN
            \/ ListedInGroup(con.username, group)
            \/ PrimaryGroup(con.username, group)
            \/ HasMD5Entry(con.username, group) )

\* C14 witness: bob is accepted for @ops by his passwd.md5 entry alone: there
\* is no OS group ops and bob is no OS user
C14_Witness ==
  /\ GroupLookupDecides /\ Best.names = <<<<"@">> \o S_ops>>
  /\ con.username = S_bob
  /\ \A g \in sysdb.group : g.gr_name # S_ops
  /\ HasMD5Entry(S_bob, S_ops)
  /\ status = HTTP_OK

\* C15: once the credentials are verified, or verification is skipped for a
\* Local certificate, the user root gets OK whatever the Location's level and
\* principals are, and no user list or group is looked at.
C15_RootBypass ==
  ( /\ Governed /\ InCalls("check password") /\ con.username = S_root
    /\ (InCalls("password ok") \/ LocalCertificate) ) =>
    /\ status = HTTP_OK
    /\ ~InCalls("user check") /\ ~InCalls("group check")
    /\ ~InCalls("cupsdCheckGroup")

\* C15 witness: root, verified by PAM, is accepted by a Group level Location
\* whose only group does not have root
C15_Witness ==
  /\ Governed /\ con.username = S_root /\ InCalls("password ok")
  /\ Best.level = AUTH_GROUP /\ Best.type = AUTH_BASIC /\ Best.names = <<S_adm>>
  /\ ~InPermittedGroup
  /\ status = HTTP_OK

\* none of steps 4 to 7 decides the request
UndecidedBeforeUsername ==
  /\ Governed
  /\ ~(Best.satisfy = AUTH_SATISFY_ALL /\ HostDenied)
  /\ EncryptionMet
  /\ ~AsksNothing
  /\ ~(Best.type = AUTH_NONE /\ Best.limit = AUTH_LIMIT_IPP /\ con.requesting_user_name)

\* C16: a request without a username that no earlier step decides gets
\* UNAUTHORIZED when satisfy = All or the host verdict is Deny and OK otherwise,
\* and nothing of credential verification or the principal check runs.
C16_NoUsername ==
  (UndecidedBeforeUsername /\ con.username = <<>>) =>
    /\ status = IF Best.satisfy = AUTH_SATISFY_ALL \/ HostDenied
                THEN HTTP_UNAUTHORIZED ELSE HTTP_OK
    /\ \A i \in DOMAIN calls : calls[i] \notin CredentialCalls

\* C16 witness: satisfy = Any, a denied host, no username: UNAUTHORIZED
C16_Witness ==
  /\ UndecidedBeforeUsername /\ con.username = <<>>
  /\ Best.satisfy = AUTH_SATISFY_ANY /\ HostDenied
  /\ status = HTTP_UNAUTHORIZED

(***************************************************************************)
(* SpecIPP: one location "/" without a scheme or with Basic, whose verb    *)
(* mask is ALL, IPP, or IPP with POST; POST and GET requests, with and     *)
(* without a requesting-user-name, checked against the location found by   *)
(* cupsdFindBest or against the location a policy names                    *)
(***************************************************************************)
IppLimits == {AUTH_LIMIT_ALL, AUTH_LIMIT_IPP, AUTH_LIMIT_IPP \cup AUTH_LIMIT_POST}

IppPeers == {P_localhost, P_a_org}

IppCredentials == {NoCredentials, BasicCredentials(S_amy, S_good)}

IppAddLocation == NumLocations = 0 /\ cupsdAddLocation(S_slash)

IppReadLocation ==
  \E limit \in IppLimits, type \in {AUTH_NONE, AUTH_BASIC},
     satisfy \in {AUTH_SATISFY_ALL, AUTH_SATISFY_ANY} :
    ReadLocation(limit, AUTH_ALLOW, type, AUTH_USER, satisfy, HTTP_ENCRYPT_IF_REQUESTED)

IppAddName == cupsdAddName(S_amy)

IppDenyIP == cupsdDenyIP(Net10, Mask8)

IppRequest ==
  \E state \in {HTTP_GET, HTTP_POST}, peer \in IppPeers, cred \in IppCredentials,
     rqun \in BOOLEAN :
    /\ Locations # <<>>
    /\ AuthorizeRequest(S_slash, state, peer, FALSE, cred, rqun, NULL, OsA)

IppOperation ==
  \E peer \in IppPeers, cred \in IppCredentials, rqun \in BOOLEAN :
    AuthorizeOperation(1, HTTP_POST, peer, FALSE, cred, rqun, NULL, OsA)

NextIPP ==
  \/ IppAddLocation \/ IppReadLocation \/ IppAddName \/ IppDenyIP
  \/ IppRequest \/ IppOperation

SpecIPP == Init /\ [][NextIPP]_vars

\* none of steps 4 to 6 decides the request
UndecidedBeforeIPP ==
  /\ Governed
  /\ ~(Best.satisfy = AUTH_SATISFY_ALL /\ HostDenied)
  /\ EncryptionMet
  /\ ~AsksNothing

\* C17 as stated: a Location without a scheme whose verb mask contains IPP,
\* whatever else the mask contains, answers an IPP request that carries a
\* requesting-user-name with OK, with no credential or principal check.
C17_Original ==
  ( /\ UndecidedBeforeIPP /\ Best.type = AUTH_NONE
    /\ AUTH_LIMIT_IPP \subseteq Best.limit /\ con.requesting_user_name ) =>
    /\ status = HTTP_OK
    /\ \A i \in DOMAIN calls : calls[i] \notin CredentialCalls

\* what holds when the verb mask is IPP and nothing else
C17_MaskIsIPP ==
  ( /\ UndecidedBeforeIPP /\ Best.type = AUTH_NONE
    /\ Best.limit = AUTH_LIMIT_IPP /\ con.requesting_user_name ) =>
    /\ status = HTTP_OK
    /\ \A i \in DOMAIN calls : calls[i] \notin CredentialCalls

(***************************************************************************)
(* Claims about the case policy and the .ppd suffix (under SpecFind)       *)
(***************************************************************************)
\* the Locations whose verb mask includes the request verb and whose path is
\* the given one
Offered(path) ==
  {k \in 1..NumLocations : Locations[k].location = path /\ VerbIncluded(Locations[k])}

\* the Locations a request could be given at all
Eligible ==
  {k \in 1..NumLocations :
     BeginsWithSlash(Locations[k].location) /\ VerbIncluded(Locations[k])}

\* C18 as stated: the prefix comparison is case-insensitive for a request path
\* that begins with /printers/ or /classes/ and case-sensitive otherwise; so
\* /PRINTERS/Foo is given a Location with path /printers/ that includes the
\* verb, and /Admin/x is not given a Location with path /admin/.
C18_Original ==
  Served =>
    /\ (con.uri = S_PRINTERS_Foo /\ Offered(S_printers) # {}) => con.best # 0
    /\ (con.uri = S_Admin_x /\ Eligible # {} /\ Eligible = Offered(S_admin))
         => con.best = 0
    /\ (IsQueuePath(con.uri) /\ con.best # 0) =>
         IsPrefix(Fold(Locations[con.best].location), Fold(SeenPath(con.uri)))
    /\ (~IsQueuePath(con.uri) /\ con.best # 0) =>
         IsPrefix(Locations[con.best].location, con.uri)

\* C18 amended: the prefix /printers/ or /classes/ of the request path is
\* recognised byte for byte; what follows it is compared case-insensitively,
\* and every other path case-sensitively. So /printers/Foo is given a Location
\* with path /printers/foo, while /PRINTERS/Foo is not given a Location with
\* path /printers/ and /Admin/x is not given a Location with path /admin/.
C18_QueueNamesFolded ==
  Served =>
    /\ (con.uri = S_printers_Foo /\ Offered(S_printers_foo) # {}) =>
         (con.best # 0 /\ Locations[con.best].location = S_printers_foo)
    /\ (con.uri = S_PRINTERS_Foo /\ Eligible # {} /\ Eligible = Offered(S_printers))
         => con.best = 0
    /\ (con.uri = S_Admin_x /\ Eligible # {} /\ Eligible = Offered(S_admin))
         => con.best = 0
    /\ (IsQueuePath(con.uri) /\ con.best # 0) =>
         IsPrefix(Fold(Locations[con.best].location), Fold(SeenPath(con.uri)))
    /\ (~IsQueuePath(con.uri) /\ con.best # 0) =>
         IsPrefix(Locations[con.best].location, con.uri)

\* C18 witness: /printers/Foo is given the Location /printers/foo
C18_Witness ==
  /\ Served /\ con.uri = S_printers_Foo
  /\ con.best # 0 /\ Locations[con.best].location = S_printers_foo

\* k is the Location find-best gives to a request whose compared path is r:
\* the first of the longest eligible Locations whose path is a prefix of r
\* (fold: case-insensitively), or 0 when there is none
IsResultFor(k, r, fold) ==
  LET M == {j \in Eligible :
              IF fold THEN IsPrefix(Fold(Locations[j].location), Fold(r))
                      ELSE IsPrefix(Locations[j].location, r)}
  IN IF M = {} THEN k = 0
     ELSE /\ k \in M
          /\ \A j \in M :
               \/ Len(Locations[j].location) < Len(Locations[k].location)
               \/ Len(Locations[j].location) = Len(Locations[k].location) /\ k <= j

\* C19: find-best drops a trailing .ppd from the path it compares iff the path
\* begins with /printers/ or /classes/: a request for /printers/foo.ppd gets
\* what a request for /printers/foo gets, a request for /admin/foo.ppd is
\* compared as /admin/foo.ppd, and the path of the request itself keeps its
\* suffix.
C19_PPDStripping ==
  Served =>
    /\ con.uri \in {S_printers_foo_ppd, S_printers_foo} =>
         IsResultFor(con.best, S_printers_foo, TRUE)
    /\ con.uri = S_admin_foo_ppd => IsResultFor(con.best, S_admin_foo_ppd, FALSE)
    /\ (con.uri = S_admin_foo_ppd /\ Offered(S_admin_foo_ppd) # {}) =>
         (con.best # 0 /\ Locations[con.best].location = S_admin_foo_ppd)
    /\ IsResultFor(con.best, SeenPath(con.uri), IsQueuePath(con.uri))
    /\ con.uri \in FindURIs

\* C19 witness: /printers/foo.ppd is given the Location /printers/foo, and the
\* path of the request still ends in .ppd
C19_Witness ==
  /\ Served /\ con.uri = S_printers_foo_ppd
  /\ con.best # 0 /\ Locations[con.best].location = S_printers_foo

(***************************************************************************)
(* SpecCopy: one location is configured with names and with allow and deny *)
(* masks of each kind, then copied                                         *)
(***************************************************************************)
CopyHostNames == {<<".","e","x">>, <<"@","L","O","C","A","L">>,
                  <<"@","I","F","(","e","t","h","0",")">>}

CopyAddLocation ==
  NumLocations = 0 /\ \E location \in {S_admin, S_printers} : cupsdAddLocation(location)

CopyReadLocation ==
  /\ NumLocations = 1
  /\ \E limit \in {AUTH_LIMIT_ALL, AUTH_LIMIT_GET}, order_type \in {AUTH_ALLOW, AUTH_DENY},
        type \in {AUTH_NONE, AUTH_DIGEST}, satisfy \in {AUTH_SATISFY_ALL, AUTH_SATISFY_ANY} :
       ReadLocation(limit, order_type, type, AUTH_USER, satisfy, HTTP_ENCRYPT_REQUIRED)

CopyAddName == NumLocations = 1 /\ cupsdAddName(S_amy)

CopyAllowHost == NumLocations = 1 /\ \E name \in CopyHostNames : cupsdAllowHost(name)

CopyAllowIP == NumLocations = 1 /\ cupsdAllowIP(Net10, Mask8)

CopyDenyHost == NumLocations = 1 /\ \E name \in CopyHostNames : cupsdDenyHost(name)

CopyDenyIP == NumLocations = 1 /\ cupsdDenyIP(Net10_1, Mask16)

CopyFirstLocation == NumLocations = 1 /\ cupsdCopyLocation(1)

NextCopy ==
  \/ CopyAddLocation \/ CopyReadLocation \/ CopyAddName
  \/ CopyAllowHost \/ CopyAllowIP \/ CopyDenyHost \/ CopyDenyIP
  \/ CopyFirstLocation

SpecCopy == Init /\ [][NextCopy]_vars

\* Locations[2] is the copy cupsdCopyLocation made of Locations[1]
Copied == NumLocations = 2

\* C20 as stated: the copy has the path, verb mask, order, scheme, level,
\* satisfy, encryption, principal names and the allow and deny masks of the
\* original, masks of every kind (Interface, Named, IP) with equal contents.
C20_Original ==
  Copied =>
    /\ Locations[2].location = Locations[1].location
    /\ Locations[2].limit = Locations[1].limit
    /\ Locations[2].order_type = Locations[1].order_type
    /\ Locations[2].type = Locations[1].type
    /\ Locations[2].level = Locations[1].level
    /\ Locations[2].satisfy = Locations[1].satisfy
    /\ Locations[2].encryption = Locations[1].encryption
    /\ Locations[2].names = Locations[1].names
    /\ Locations[2].allow = Locations[1].allow
    /\ Locations[2].deny = Locations[1].deny

\* what holds: every field but the Interface masks is equal; the copy of an
\* Interface mask has the type only, no name and length 0
SameMask(copy, mask) ==
  IF mask.type = AUTH_INTERFACE
  THEN copy.type = AUTH_INTERFACE /\ copy.name = NULL /\ copy.length = 0
  ELSE copy = mask

C20_ExceptInterface ==
  Copied =>
    /\ \A f \in {"location", "length", "limit", "order_type", "type", "level",
                 "satisfy", "encryption", "names", "num_names", "num_allow",
                 "num_deny"} : Locations[2][f] = Locations[1][f]
    /\ \A i \in 1..Locations[1].num_allow :
         SameMask(Locations[2].allow[i], Locations[1].allow[i])
    /\ \A i \in 1..Locations[1].num_deny :
         SameMask(Locations[2].deny[i], Locations[1].deny[i])

(***************************************************************************)
(* SpecResource: one location "/" of every scheme and level; requests with *)
(* good and bad credentials against databases where PAM is down, the       *)
(* account is expired or passwd.md5 cannot be opened                       *)
(***************************************************************************)
OsPamDown == [OsA EXCEPT !.pam_up = FALSE]

OsExpired == [OsA EXCEPT !.expired = {S_amy}]

ResourceDatabases == {OsA, OsPamDown, OsExpired, OsNoFile, OsSys}

ResourceNames == {S_SYSTEM, <<"@">> \o S_adm, S_adm, S_root}

ResourcePeers == {P_localhost, P_a_org}

ResourceCredentials(peer) ==
  {NoCredentials,
   BasicCredentials(S_amy, S_good), BasicCredentials(S_amy, S_bad),
   LocalCredentials(S_amy),
   DigestCredentials(S_amy, S_good, peer.hostname, "GET", S_slash),
   DigestCredentials(S_amy, S_bad, peer.hostname, "GET", S_slash)}

ResourceReadDefaultAuthType ==
  \E type \in AuthTypes : ReadDefaultAuthType(type)

ResourceAddLocation == NumLocations = 0 /\ cupsdAddLocation(S_slash)

ResourceReadLocation ==
  \E type \in AuthTypes, level \in {AUTH_USER, AUTH_GROUP} :
    ReadLocation(AUTH_LIMIT_ALL, AUTH_ALLOW, type, level, AUTH_SATISFY_ALL,
                 HTTP_ENCRYPT_IF_REQUESTED)

ResourceAddName == \E name \in ResourceNames : cupsdAddName(name)

ResourceRequest ==
  \E peer \in ResourcePeers, os \in ResourceDatabases :
    \E cred \in ResourceCredentials(peer) :
      /\ Locations # <<>>
      /\ AuthorizeRequest(S_slash, HTTP_GET, peer, FALSE, cred, FALSE, NULL, os)

NextResource ==
  \/ ResourceReadDefaultAuthType \/ ResourceAddLocation \/ ResourceReadLocation
  \/ ResourceAddName \/ ResourceRequest

SpecResource == Init /\ [][NextResource]_vars

\* the number of handles of one kind that are open after the first i calls
OpenAfter(i, open, close) ==
  Cardinality({j \in 1..i : calls[j] = open})
    - Cardinality({j \in 1..i : calls[j] = close})

\* at most one handle of the kind is open at any time, and none at the return
AllClosed(open, close) ==
  /\ \A i \in DOMAIN calls : OpenAfter(i, open, close) \in {0, 1}
  /\ OpenAfter(Len(calls), open, close) = 0

\* every lookup in an OS database is followed at once by its end call
EndedAtOnce(lookup, end) ==
  \A i \in DOMAIN calls :
    calls[i] = lookup => (i < Len(calls) /\ calls[i + 1] = end)

\* C21: when cupsdIsAuthorized has returned its verdict, on error returns
\* too, every PAM handle that was started has been ended, every passwd.md5
\* that was opened has been closed, and every passwd and group lookup has
\* been followed by its end call; no handle is left open.
C21_ResourceDiscipline ==
  Authorized =>
    /\ AllClosed("pam_start", "pam_end")
    /\ AllClosed("cupsFileOpen", "cupsFileClose")
    /\ AllClosed("getpwnam", "endpwent")
    /\ AllClosed("getgrnam", "endgrent")
    /\ EndedAtOnce("getpwnam", "endpwent")
    /\ EndedAtOnce("getgrnam", "endgrent")

\* C21 witness: a request refused after PAM accepted the password and the
\* group database and passwd.md5 were searched in vain
C21_Witness ==
  /\ Authorized /\ status # HTTP_OK
  /\ InCalls("pam_start") /\ InCalls("pam_end")
  /\ InCalls("getgrnam") /\ InCalls("cupsFileOpen") /\ InCalls("cupsFileClose")

(***************************************************************************)
(* SpecAlloc: one location is given names and masks, some of the calls     *)
(* running out of memory, and is then copied                               *)
(***************************************************************************)
AllocHostNames == {<<".","e","x">>, <<"@","L","O","C","A","L">>,
                   <<"@","I","F","(","e","t","h","0",")">>}

AllocAddLocation == NumLocations = 0 /\ cupsdAddLocation(S_printers)

AllocAddName == NumLocations = 1 /\ cupsdAddName(S_amy)

AllocAddNameNoMemory ==
  NumLocations = 1 /\ \E where \in {"array", "strdup"} : cupsdAddNameNoMemory(where)

AllocAllowHost == NumLocations = 1 /\ \E name \in AllocHostNames : cupsdAllowHost(name)

AllocAllowHostNoMemory ==
  NumLocations = 1 /\ \E name \in AllocHostNames : cupsdAllowHostNoMemory(name)

AllocAllowIP == NumLocations = 1 /\ cupsdAllowIP(Net10, Mask8)

AllocDenyHost == NumLocations = 1 /\ \E name \in AllocHostNames : cupsdDenyHost(name)

AllocDenyHostNoMemory ==
  NumLocations = 1 /\ \E name \in AllocHostNames : cupsdDenyHostNoMemory(name)

AllocDenyIP == NumLocations = 1 /\ cupsdDenyIP(Net10_1, Mask16)

AllocMaskNoMemory == NumLocations = 1 /\ AddMaskNoMemory

\* every Named mask of the location has a name for strdup to read (lines 594,
\* 630); with a null name the copy does not return
NamesReadable(loc) ==
  /\ \A i \in 1..loc.num_allow :
       loc.allow[i].type = AUTH_NAME => loc.allow[i].name # NULL
  /\ \A i \in 1..loc.num_deny :
       loc.deny[i].type = AUTH_NAME => loc.deny[i].name # NULL

AllocCopyLocation ==
  NumLocations = 1 /\ NamesReadable(Locations[1]) /\ cupsdCopyLocation(1)

AllocCopyLocationNoMemory ==
  NumLocations = 1 /\ NamesReadable(Locations[1]) /\ cupsdCopyLocationNoMemory(1)

NextAlloc ==
  \/ AllocAddLocation \/ AllocAddName \/ AllocAddNameNoMemory
  \/ AllocAllowHost \/ AllocAllowHostNoMemory \/ AllocAllowIP
  \/ AllocDenyHost \/ AllocDenyHostNoMemory \/ AllocDenyIP
  \/ AllocMaskNoMemory \/ AllocCopyLocation \/ AllocCopyLocationNoMemory

SpecAlloc == Init /\ [][NextAlloc]_vars

\* the variant the kind tag of a mask names is populated
Populated(mask) ==
  IF mask.type \in {AUTH_NAME, AUTH_INTERFACE}
  THEN mask.name # NULL /\ mask.length = strlen(mask.name)
  ELSE mask.type = AUTH_IP /\ Len(mask.address) = 4 /\ Len(mask.netmask) = 4

\* C22 as stated: after any sequence of cupsdAllowHost, cupsdAllowIP,
\* cupsdDenyHost, cupsdDenyIP and cupsdCopyLocation, failed string duplications
\* included, every mask counted in an allow or deny list has its variant
\* populated: an Interface or Named mask a name with the stored length, an IP
\* mask an address and a netmask.
C22_Original ==
  \A k \in 1..NumLocations :
    /\ \A i \in 1..Locations[k].num_allow : Populated(Locations[k].allow[i])
    /\ \A i \in 1..Locations[k].num_deny : Populated(Locations[k].deny[i])

(***************************************************************************)
(* Claims about the table cupsdAddLocation and cupsdCopyLocation build     *)
(* (under SpecFind)                                                        *)
(***************************************************************************)
\* C23 as stated: after any sequence of cupsdAddLocation and cupsdCopyLocation
\* every Location of the table has a non-empty path that begins with "/", and
\* its stored length is the byte length of the stored path.
C23_Original ==
  \A k \in 1..NumLocations :
    /\ Locations[k].location # <<>>
    /\ BeginsWithSlash(Locations[k].location)
    /\ Locations[k].length = Len(Locations[k].location)

\* C23 amended: the stored length is the byte length of the stored path, which
\* is the given path cut to what the buffer holds; a path that is empty or
\* does not begin with "/" is stored as well, and find-best never returns its
\* Location.
C23_LengthOfStoredPath ==
  /\ \A k \in 1..NumLocations :
       /\ Locations[k].length = Len(Locations[k].location)
       /\ Locations[k].length < HTTP_MAX_URI
       /\ \E path \in FindLocationPaths :
            /\ IsPrefix(Locations[k].location, path)
            /\ Locations[k].location = path \/ Locations[k].length = HTTP_MAX_URI - 1
  /\ (Served /\ con.best # 0) => BeginsWithSlash(Locations[con.best].location)

\* C23 witness: a location with the over-long path was added, given its verb
\* mask and copied; both records hold the path cut to the buffer
C23_Witness ==
  /\ NumLocations = 2
  /\ Locations[1].length = HTTP_MAX_URI - 1 /\ Locations[2] = Locations[1]
  /\ Locations[1].limit # {}

\* C25: find-best returns, among the Locations that match the request (prefix,
\* leading "/", verb) and are of the greatest length, the one inserted first;
\* a later Location is preferred to an earlier one only if it is strictly longer.
C25_EarliestOfLongest ==
  Served =>
    LET M == {k \in Eligible : PathGoverns(Locations[k], con.uri)} IN
    /\ (con.best = 0) = (M = {})
    /\ con.best # 0 =>
         /\ con.best \in M
         /\ \A k \in M :
              /\ Locations[k].length <= Locations[con.best].length
              /\ Locations[k].length = Locations[con.best].length => con.best <= k
              /\ k < con.best => Locations[k].length < Locations[con.best].length

\* C25 witness: two Locations with the same path both match, the first is returned
C25_Witness ==
  /\ Served /\ NumLocations = 2 /\ con.best = 1
  /\ Locations[1].location = Locations[2].location
  /\ PathGoverns(Locations[2], con.uri) /\ VerbIncluded(Locations[2])

(***************************************************************************)
(* Claims about failed allocations (under SpecAlloc)                       *)
(***************************************************************************)
\* cupsdAddName has logged a failed allocation
AddNameHasFailed ==
  \/ InCalls("Unable to add name to location")
  \/ InCalls("Unable to duplicate name for location")

\* C24 as stated: when an allocation fails inside cupsdAddName, add_allow or
\* add_deny, the count has been incremented and is not rolled back, so the
\* Location's num_names, num_allow or num_deny is larger than the number of
\* populated entries.
C24_Original ==
  (NumLocations >= 1 /\ AddNameHasFailed) =>
    \/ Locations[1].num_names > Len(Locations[1].names)
    \/ Locations[1].num_allow > Len(Locations[1].allow)
    \/ Locations[1].num_deny > Len(Locations[1].deny)

\* C24 amended: a failed allocation inside cupsdAddName, add_allow or add_deny
\* leaves the counts as they were: each count is incremented only after the
\* allocation has succeeded, so num_names, num_allow and num_deny always equal
\* the number of entries of their arrays, and every counted name is a string.
C24_CountsUnchanged ==
  \A k \in 1..NumLocations :
    /\ Locations[k].num_names = Len(Locations[k].names)
    /\ Locations[k].num_allow = Len(Locations[k].allow)
    /\ Locations[k].num_deny = Len(Locations[k].deny)
    /\ \A i \in 1..Locations[k].num_names : Locations[k].names[i] # NULL

\* C24 witness: both allocations of cupsdAddName have failed once, and
\* the location has no name
C24_Witness ==
  /\ NumLocations = 1
  /\ InCalls("Unable to add name to location")
  /\ InCalls("Unable to duplicate name for location")
  /\ Locations[1].num_names = 0 /\ Locations[1].names = <<>>
  /\ Locations[1].num_allow = 1

====
